---------------------------- MODULE Spec2Model ----------------------------
(***************************************************************************)
(* A model of the board routines and the atari reader of michi-c           *)
(* (michi.h, michi.c): the Position structure, put_stone / remove_stone    *)
(* with the incremental env4 / env4d caches, compute_block, play_move,     *)
(* pass_move, undo_move, fix_atari and read_ladder_attack.                 *)
(*                                                                         *)
(* Colours are the characters of Position.color: "." (empty), "X" (side to *)
(* move), "x" (the other side), " " (off board).  A C char value of 0 is   *)
(* written "".  Points are indices in color[], exactly as in the code.     *)
(*                                                                         *)
(* A value a C function computes once and uses several times is handed to  *)
(* a helper operator as an argument, so that it is written (and evaluated) *)
(* once.                                                                   *)
(***************************************************************************)
EXTENDS Integers, Sequences, FiniteSets, TLC

\* ------------------------------------------------------------ michi.h
N == 13
W == N + 2
BOARDSIZE == (N + 1) * W + 1
BOARD_IMIN == N + 1
BOARD_IMAX == BOARDSIZE - N - 1
PASS_MOVE == 0
SINGLEPT_OK == 1
SINGLEPT_NOK == 0
TWOLIBS_TEST == 1
TWOLIBS_TEST_NO == 0

\* static int delta[] = { -N-1, 1, N+1, -1, -N, W, N, -W }  (0-based in C)
delta == << -N - 1, 1, N + 1, -1, -N, W, N, -W >>

Index == 0 .. (BOARDSIZE - 1)

EXPAND_VISITS == 8
RAVE_EQUIV == 3500
PRIOR_EVEN == 10
PRIOR_SELFATARI == 10
PRIOR_CAPTURE_ONE == 15
PRIOR_CAPTURE_MANY == 30
PRIOR_PAT3 == 10
PRIOR_LARGEPATTERN == 100
PRIOR_EMPTYAREA == 10

\* ------------------------------------------------------------ bounds
\* Plies played in one explored game (n never exceeds it).
MaxPly == 6
\* Plies played in one explored game with trial moves.
UndoPly == 5
\* Trial moves taken back by undo_move in one explored game.
MaxUndo == 1
\* Plies explored after the board was filled.
CapPly == 3
\* Plies explored after the board was filled, before a search.
TreePly == 2
\* Children of the root that may come out most visited: the first MaxBest.
MaxBest == 2
\* Plies after which the play command is no longer given; genmove is given
\* up to one ply later
GtpPly == 3
\* Plies played in one explored game before the patterns are probed.
PatPly == 4
\* Plies played inside the enclosed corner before fix_atari is called.
FixPly == 4

\* Plies played before a query of the large patterns.
LargePly == 1
\* Iterations of the loop of mcplayout that are followed.
McSteps == 3
\* Plies played inside the enclosed corner before compute_block is called.
BlockPly == 1
\* Plies played inside the enclosed corner before the capture moves are
\* listed.
GenPly == 1
CfgPly == 1
\* Longest list that is shuffled.
ShuffleLen == 5
\* Deepest nesting of the calls that are followed for the Marks.
MarkDepth == 10
\* Iterations of tree_search.
SearchIters == 20

\* Plies explored after the games of ExpandGames.
ExpandPly == 1

\* ------------------------------------------------------------ bytes
Bit(x, i) == (x \div (2 ^ i)) % 2

\* One bit of the C statements a ^= m, a &= ~m and a |= m.
BitOp(kind, x, y) ==
    IF kind = "^=" THEN (x + y) % 2
    ELSE IF kind = "&=" THEN x * (1 - y)
    ELSE x + y - x * y

\* The statement applied to a Byte (the cache bytes are unsigned chars):
\* bits i..7 of the result.  put_stone writes &= 0xEE, 0xDD, 0xBB, 0x77 for
\* &= ~0x11, ~0x22, ~0x44, ~0x88.
RECURSIVE ByteBits(_, _, _, _)
ByteBits(kind, a, m, i) ==
    IF i > 7 THEN 0
    ELSE BitOp(kind, Bit(a, i), Bit(m, i)) * (2 ^ i)
         + ByteBits(kind, a, m, i + 1)

ByteOp(kind, a, m) == ByteBits(kind, a, m, 0)

\* Conversion of an int to a C char (signed, 8 bits, as gcc on x86 does).
ToChar(x) == ((x + 128) % 256) - 128

\* SWAP_CASE(c)
SWAP_CASE(c) == IF c = "X" THEN "x" ELSE IF c = "x" THEN "X" ELSE c


\* ------------------------------------------------------------ board routines
\* is_eyeish with "if (c == '.') continue;" in place of "return 0".
RECURSIVE is_eyeish_loop_skipempty(_, _, _, _)
is_eyeish_loop_skipempty(pos, pt, k, eyecolor) ==
    IF k > 4 THEN eyecolor
    ELSE LET c == pos.color[pt + delta[k]]
         IN  IF c = " " \/ c = "."
             THEN is_eyeish_loop_skipempty(pos, pt, k + 1, eyecolor)
             ELSE IF eyecolor = ""
             THEN is_eyeish_loop_skipempty(pos, pt, k + 1, c)
             ELSE IF c = SWAP_CASE(eyecolor) THEN ""
             ELSE is_eyeish_loop_skipempty(pos, pt, k + 1, eyecolor)

\* char is_eyeish(Position *pos, Point pt): the loop over the 4 neighbours,
\* k = 1..4 here for delta[0..3]; the result is "" (0) or the diamond colour.
RECURSIVE is_eyeish_loop(_, _, _, _)
is_eyeish_loop(pos, pt, k, eyecolor) ==
    IF k > 4 THEN eyecolor
    ELSE LET c == pos.color[pt + delta[k]]
         IN  IF c = " " THEN is_eyeish_loop(pos, pt, k + 1, eyecolor)
             ELSE IF c = "." THEN ""
             ELSE IF eyecolor = "" THEN is_eyeish_loop(pos, pt, k + 1, c)
             ELSE IF c = SWAP_CASE(eyecolor) THEN ""
             ELSE is_eyeish_loop(pos, pt, k + 1, eyecolor)

is_eyeish(pos, pt) == is_eyeish_loop(pos, pt, 1, "")

\* colour coding c -> 0:WHITE, 1:BLACK, 2:EMPTY, 3:OUT, with the real colours
\* (X is BLACK when n is even).
env4_code(pos, q) ==
    IF pos.color[q] = "." THEN 2
    ELSE IF pos.color[q] = " " THEN 3
    ELSE IF pos.n % 2 = 0
         THEN (IF pos.color[q] = "X" THEN 1 ELSE 0)
         ELSE (IF pos.color[q] = "X" THEN 0 ELSE 1)

\* Byte compute_env4(Position *pos, Point pt, int offset)
compute_env4(pos, pt, offset) ==
    LET term(k) ==
            LET c  == env4_code(pos, pt + delta[k + 1])
                hi == c \div 2
                lo == c % 2
            IN  ((hi * 16) + lo) * (2 ^ (k - offset))
    IN  term(offset) + term(offset + 1) + term(offset + 2) + term(offset + 3)

\* The eight cache updates of put_stone / remove_stone: env4 of the 4
\* neighbours and env4d of the 4 diagonal neighbours, with masks m, 2m, 4m, 8m.
Touch(pos, pt, kind, m) ==
    [pos EXCEPT
        !.env4  = [@ EXCEPT ![pt + N + 1] = ByteOp(kind, @, m),
                            ![pt - 1]     = ByteOp(kind, @, 2 * m),
                            ![pt - N - 1] = ByteOp(kind, @, 4 * m),
                            ![pt + 1]     = ByteOp(kind, @, 8 * m)],
        !.env4d = [@ EXCEPT ![pt + N]     = ByteOp(kind, @, m),
                            ![pt - W]     = ByteOp(kind, @, 2 * m),
                            ![pt - N]     = ByteOp(kind, @, 4 * m),
                            ![pt + W]     = ByteOp(kind, @, 8 * m)]]

\* void put_stone(Position *pos, Point pt): always a stone of colour 'X'.
\* BLACK to play: ^= 0x11 ...; WHITE to play: &= 0xEE ...  (0x11 = 17)
put_stone(pos, pt) ==
    [Touch(pos, pt, IF pos.n % 2 = 0 THEN "^=" ELSE "&=", 17)
        EXCEPT !.color[pt] = "X"]

\* void remove_stone(Position *pos, Point pt): always a stone of colour 'x'.
\* BLACK to play: |= 0x10 ...; WHITE to play: ^= 0x11 ...  (0x10 = 16)
remove_stone(pos, pt) ==
    [Touch(pos, pt, IF pos.n % 2 = 0 THEN "|=" ELSE "^=",
                    IF pos.n % 2 = 0 THEN 16 ELSE 17)
        EXCEPT !.color[pt] = "."]

\* remove_X_stone without the change of n around remove_stone.
remove_X_stone_nocheat(pos, pt) == remove_stone(pos, pt)

\* remove_X_stone that does not take its change of n back.
remove_X_stone_keepn(pos, pt) == remove_stone([pos EXCEPT !.n = @ + 1], pt)

\* void remove_X_stone(Position *pos, Point pt): (pos->n)++ as a cheat to
\* make remove_stone() work, then (pos->n)-- to undo the cheat.
remove_X_stone(pos, pt) ==
    [remove_stone([pos EXCEPT !.n = @ + 1], pt) EXCEPT !.n = @ - 1]

\* void swap_color(Position *pos)
swap_color(pos) ==
    [pos EXCEPT !.color =
        [i \in Index |-> IF i >= BOARD_IMIN /\ i < BOARD_IMAX
                         THEN SWAP_CASE(pos.color[i]) ELSE pos.color[i]]]

\* The colour array written by empty_position.
EmptyColor ==
    [i \in Index |->
        IF i < N + 1 \/ i >= (N + 1) * (N + 1) \/ i % (N + 1) = 0
        THEN " " ELSE "."]

OnBoard == {i \in Index : EmptyColor[i] = "."}


\* Point parse_coord(char *s) for column x (1 = A) and row y: the index of
\* a coordinate such as A1 = Pt(1, 1).
Pt(x, y) == (N - y + 1) * (N + 1) + x

\* void compute_block(pos, pt, stones, libs, nlibs): the scan of the four
\* neighbours of one stone.  st holds stones[], libs[], the points marked in
\* mark1 and whether "goto finished" was taken.
RECURSIVE cb_scan(_, _, _, _, _, _)
cb_scan(pos, color, nlibs, st, pt, k) ==
    IF k > 4 THEN st
    ELSE LET n == pt + delta[k]
         IN  IF n \in st.marked THEN cb_scan(pos, color, nlibs, st, pt, k + 1)
             ELSE IF pos.color[n] = color
             THEN cb_scan(pos, color, nlibs,
                          [st EXCEPT !.marked = @ \cup {n},
                                     !.stones = Append(@, n)], pt, k + 1)
             ELSE IF pos.color[n] = "."
             THEN IF Len(st.libs) + 1 >= nlibs
                  THEN [st EXCEPT !.marked = @ \cup {n},
                                  !.libs = Append(@, n),
                                  !.finished = TRUE]
                  ELSE cb_scan(pos, color, nlibs,
                               [st EXCEPT !.marked = @ \cup {n},
                                          !.libs = Append(@, n)], pt, k + 1)
             ELSE cb_scan(pos, color, nlibs,
                          [st EXCEPT !.marked = @ \cup {n}], pt, k + 1)

\* The stones stones[lo..hi] are scanned in that order, those the scan adds
\* to the list included; the scan ends at the first index past the end of the
\* list (the range is halved to keep the evaluation shallow on large blocks).
RECURSIVE cb_range(_, _, _, _, _, _)
cb_range(pos, color, nlibs, st, lo, hi) ==
    IF st.finished \/ lo > hi \/ lo > Len(st.stones) THEN st
    ELSE IF lo = hi THEN cb_scan(pos, color, nlibs, st, st.stones[lo], 1)
    ELSE cb_range(pos, color, nlibs,
                  cb_range(pos, color, nlibs, st, lo, (lo + hi) \div 2),
                  (lo + hi) \div 2 + 1, hi)

\* compute_block that scans the neighbours of the stone pt only.
cb_loop_first(pos, color, nlibs, st, tail) ==
    cb_range(pos, color, nlibs, st, tail, tail)

\* while (head > tail) { pt = stones[tail++]; ... }: stones[] has BOARDSIZE
\* entries.
cb_loop(pos, color, nlibs, st, tail) ==
    cb_range(pos, color, nlibs, st, tail, BOARDSIZE)

\* The two lists compute_block hands back.
cb_result(st) == [stones |-> st.stones, libs |-> st.libs]

compute_block(pos, pt, nlibs) ==
    cb_result(cb_loop(pos, pos.color[pt], nlibs,
                      [stones |-> << pt >>, libs |-> << >>,
                       marked |-> {pt}, finished |-> FALSE], 1))

\* FORALL_IN_SLIST(stones, pt) remove_stone(pos, pt), for stones[lo..hi]
\* (the range is halved to keep the evaluation shallow on large blocks; n is
\* never negative, the test of it makes pos be evaluated first).
RECURSIVE remove_range(_, _, _, _)
remove_range(pos, stones, lo, hi) ==
    IF lo > hi \/ pos.n < 0 THEN pos
    ELSE IF lo = hi THEN remove_stone(pos, stones[lo])
    ELSE remove_range(remove_range(pos, stones, lo, (lo + hi) \div 2),
                      stones, (lo + hi) \div 2 + 1, hi)

\* capture_block that removes the first stone of the list only.
capture_block_first(pos, stones) ==
    IF Len(stones) = 0 THEN pos ELSE remove_stone(pos, stones[1])

\* int capture_block(Position *pos, Slist stones): the position afterwards
\* (the value returned is slist_size(stones)).
capture_block(pos, stones) == remove_range(pos, stones, 1, Len(stones))

\* play_move, lines 1166-1169: the block b of the neighbour n is captured
\* when it has no liberty.  c = [pos, captured, pos_capture].
pm_dead(c, n, b) ==
    IF Len(b.libs) = 0
    THEN [pos         |-> capture_block(c.pos, b.stones),
          captured    |-> c.captured + Len(b.stones),
          pos_capture |-> n]
    ELSE c

\* The capture test looking at the neighbours of colour 'X' in place of 'x'.
pm_neighbor_wrongcolor(c, n) ==
    IF c.pos.color[n] # "X" THEN c
    ELSE pm_dead(c, n, compute_block(c.pos, n, 1))

\* play_move, lines 1164-1169: one neighbour n of the stone played.
pm_neighbor(c, n) ==
    IF c.pos.color[n] # "x" THEN c
    ELSE pm_dead(c, n, compute_block(c.pos, n, 1))

\* play_move, lines 1163-1171: FORALL_NEIGHBORS(pos, pt, k, n).
RECURSIVE pm_captures(_, _, _)
pm_captures(c, pt, k) ==
    IF k > 4 THEN c
    ELSE pm_captures(pm_neighbor(c, pt + delta[k]), pt, k + 1)

\* play_move, lines 1185-1195: finish the update of the position.
pm_finish(pos, pt, captured) ==
    [swap_color(pos) EXCEPT
        !.capX = pos.cap, !.cap = ToChar(captured + pos.capX),
        !.n = @ + 1,
        !.last3 = pos.last2, !.last2 = pos.last, !.last = pt]

RetKo == "Error Illegal move: retakes ko"
RetSuicide == "Error Illegal move: suicide"

\* play_move, lines 1177-1184: nothing was captured; b is the block of the
\* stone played, with ko already set to 0 in pos.
pm_suicide_allowed(pos, pt, b) ==
    [pos |-> pm_finish(pos, pt, 0), ret |-> "", pos_capture |-> 0]

pm_suicide(pos, pt, b) ==
    IF Len(b.libs) = 0
    THEN [pos |-> remove_X_stone([pos EXCEPT !.ko = pos.ko_old], pt),
          ret |-> RetSuicide, pos_capture |-> 0]
    ELSE [pos |-> pm_finish(pos, pt, 0), ret |-> "", pos_capture |-> 0]

\* play_move, lines 1172-1195, after the capture loop has left c.
pm_after(pt, in_enemy_eye, c) ==
    IF c.captured # 0
    THEN [pos |-> pm_finish(
                    [c.pos EXCEPT !.ko = IF c.captured = 1 /\ in_enemy_eye # ""
                                         THEN c.pos_capture ELSE 0],
                    pt, c.captured),
          ret |-> "", pos_capture |-> c.pos_capture]
    ELSE pm_suicide([c.pos EXCEPT !.ko = 0], pt,
                    compute_block(c.pos, pt, 1))

play_move_noko(pos, pt, pc) ==
    pm_after(pt, is_eyeish(pos, pt),
             pm_captures([pos |-> put_stone([pos EXCEPT !.ko_old = pos.ko], pt),
                          captured |-> 0, pos_capture |-> 0], pt, 1))

\* char* play_move(Position *pos, Point pt); pc is the value of the global
\* pos_capture at the call.  The result is the position, the returned string
\* and the global pos_capture afterwards.
play_move(pos, pt, pc) ==
    IF pt = pos.ko
    THEN [pos |-> [pos EXCEPT !.ko_old = pos.ko], ret |-> RetKo,
          pos_capture |-> pc]
    ELSE pm_after(pt, is_eyeish(pos, pt),
                  pm_captures([pos |-> put_stone(
                                         [pos EXCEPT !.ko_old = pos.ko], pt),
                               captured |-> 0, pos_capture |-> 0], pt, 1))

\* char* pass_move(Position *pos)
pass_move(pos) ==
    [swap_color(pos) EXCEPT !.n = @ + 1, !.last2 = pos.last, !.last = 0,
                            !.ko = 0, !.cap = pos.capX, !.capX = pos.cap]

\* undo_move, lines 1140-1143: if (pos_capture) { put_stone; pos->cap -= 1 }
um_capture(pos, pc) ==
    IF pc # 0
    THEN [put_stone(pos, pc) EXCEPT !.cap = ToChar(pos.cap - 1)]
    ELSE pos

\* undo_move, lines 1144-1146: (pos->n)--; SWAP(cap, capX); swap_color(pos)
um_finish(pos) ==
    swap_color([pos EXCEPT !.n = @ - 1, !.cap = pos.capX, !.capX = pos.cap])

\* undo_move that does not put the captured stone back.
undo_move_nocapture(pos, pc) ==
    um_finish([remove_stone(pos, pos.last) EXCEPT
                  !.last = pos.last2, !.last2 = pos.last3,
                  !.ko = pos.ko_old])

\* void undo_move(Position *pos); pc is the global pos_capture.
undo_move(pos, pc) ==
    um_finish(um_capture([remove_stone(pos, pos.last) EXCEPT
                             !.last = pos.last2, !.last2 = pos.last3,
                             !.ko = pos.ko_old], pc))


\* ------------------------------------------------------------ atari reader
\* line_height counting the lines from 1.
line_height_onebased(pt) ==
    LET row0 == pt \div (N + 1)
        col0 == pt % (N + 1)
        row  == IF row0 > N \div 2 THEN N + 1 - row0 ELSE row0
        col  == IF col0 > N \div 2 THEN N + 1 - col0 ELSE col0
    IN  IF row < col THEN row ELSE col

\* int line_height(Point pt)
line_height(pt) ==
    LET row0 == pt \div (N + 1)
        col0 == pt % (N + 1)
        row  == IF row0 > N \div 2 THEN N + 1 - row0 ELSE row0
        col  == IF col0 > N \div 2 THEN N + 1 - col0 ELSE col0
    IN  IF row < col THEN row - 1 ELSE col - 1

SeqHas(l, item) == \E k \in 1..Len(l) : l[k] = item

\* if (slist_insert(moves, item)) slist_push(sizes, size);  on the lists of
\* m = [moves, sizes, ub].  slist_insert writes l[l[0]+1] before it looks for
\* item, so with an array of room Points the write is out of bounds when the
\* list already holds room - 1 items: ub records that it happened.
slist_insert(m, item, size, room) ==
    IF SeqHas(m.moves, item)
    THEN [m EXCEPT !.ub = @ \/ (Len(m.moves) + 1 >= room)]
    ELSE [moves |-> Append(m.moves, item),
          sizes |-> Append(m.sizes, size),
          ub    |-> m.ub \/ (Len(m.moves) + 1 >= room)]

\* make_list_neighbor_blocks_in_atari, lines 1247-1252: the block b of a
\* neighbour is listed and marked when it has one liberty.
nb_block(a, b) ==
    IF Len(b.libs) = 1
    THEN [breps  |-> Append(a.breps, b.stones[1]),
          libs   |-> Append(a.libs, b.libs[1]),
          marked |-> a.marked \cup {b.stones[j] : j \in 1..Len(b.stones)}]
    ELSE a

\* make_list_neighbor_blocks_in_atari, lines 1245-1253: one neighbour n.
\* a = [breps, libs, marked]; color is the opponent's colour, maxlibs is 2.
nb_neighbor(pos, color, a, n) ==
    IF n \notin a.marked /\ pos.color[n] = color
    THEN nb_block(a, compute_block(pos, n, 2))
    ELSE a

\* FORALL_NEIGHBORS(pos, pt, k, n) of one stone pt.
RECURSIVE nb_scan(_, _, _, _, _)
nb_scan(pos, color, a, pt, k) ==
    IF k > 4 THEN a
    ELSE nb_scan(pos, color, nb_neighbor(pos, color, a, pt + delta[k]),
                 pt, k + 1)

\* The stones stones[lo..hi] in that order (the range is halved to keep the
\* evaluation shallow on large blocks; a list is never shorter than 0, the
\* test of it makes a be evaluated first).
RECURSIVE nb_range(_, _, _, _, _, _)
nb_range(pos, color, a, stones, lo, hi) ==
    IF lo > hi \/ Len(a.libs) < 0 THEN a
    ELSE IF lo = hi THEN nb_scan(pos, color, a, stones[lo], 1)
    ELSE nb_range(pos, color,
                  nb_range(pos, color, a, stones, lo, (lo + hi) \div 2),
                  stones, (lo + hi) \div 2 + 1, hi)

\* FORALL_IN_SLIST(stones, pt)
nb_loop(pos, color, a, stones, i) ==
    nb_range(pos, color, a, stones, i, Len(stones))

\* void make_list_neighbor_blocks_in_atari(pos, stones, breps, libs): the
\* list libs (breps is not used by fix_atari).
make_list_neighbor_blocks_in_atari(pos, stones) ==
    nb_loop(pos, IF pos.color[stones[1]] = "x" THEN "X" ELSE "x",
            [breps |-> << >>, libs |-> << >>, marked |-> {}],
            stones, 1).libs

\* slist_clear(moves); slist_clear(sizes);
NoMoves == [moves |-> << >>, sizes |-> << >>, ub |-> FALSE]

\* What a call of fix_atari leaves: the returned flag, the lists of m, the
\* global pos_capture and whether an array was overrun.
fa_result(in_atari, m, pc) ==
    [ret |-> in_atari, moves |-> m.moves, sizes |-> m.sizes,
     pos_capture |-> pc, ub |-> m.ub]

\* fix_atari, lines 1362-1364: FORALL_IN_SLIST(blibs, l) insert l in moves.
RECURSIVE fa_countercaptures(_, _, _, _, _)
fa_countercaptures(m, blibs, size, room, i) ==
    IF i > Len(blibs) THEN m
    ELSE fa_countercaptures(slist_insert(m, blibs[i], size, room),
                            blibs, size, room, i + 1)

\* fix_atari that reports an opponent's block with one liberty as not in
\* atari.
fa_capture_notatari(b, room, pc) ==
    fa_result(0, slist_insert(NoMoves, b.libs[1], Len(b.stones), room), pc)

\* fix_atari, lines 1353-1358: the opponent's block b is in atari, its
\* liberty captures it.
fa_capture(b, room, pc) ==
    fa_result(1, slist_insert(NoMoves, b.libs[1], Len(b.stones), room), pc)

\* The test of fix_atari, lines 1381-1383, without the ladder reading.
fa_escape_ok_noladder(nmoves, nlibs, ladder) ==
    nmoves > 1 \/ nlibs = 2 \/ nlibs >= 3

\* fix_atari, lines 1381-1383: with nlibs >= 2 liberties after the escape,
\* nmoves moves listed so far and ladder the move read_ladder_attack returns
\* (C evaluates it only when the first disjunct fails and nlibs = 2).
fa_escape_ok(nmoves, nlibs, ladder) ==
    nmoves > 1 \/ (nlibs = 2 /\ ladder = 0) \/ nlibs >= 3

\* The test of fix_atari, line 1331, with the sense of singlept_ok inverted.
fa_skip_single_inverted(singlept_ok, nstones) ==
    singlept_ok = 0 /\ nstones = 1

\* fix_atari, line 1331: if (singlept_ok && slist_size(stones) == 1) return 0;
fa_skip_single(singlept_ok, nstones) ==
    singlept_ok # 0 /\ nstones = 1

\* Number of Points of the arrays moves[5], sizes[5] of read_ladder_attack.
LadderRoom == 5

\* Number of Points of the arrays move2[20], size2[20] that
\* gen_playout_moves_capture hands to fix_atari (the smallest of its
\* callers' arrays).
FixRoom == 20

RECURSIVE fix_atari(_, _, _, _, _, _, _)
RECURSIVE read_ladder_attack(_, _, _, _)

\* read_ladder_attack taking every liberty after which the block is in atari,
\* whether or not it has a move left.
rla_caught_noescapetest(acc, l, f) ==
    [move |-> IF f.ret # 0 THEN l ELSE acc.move,
     ub   |-> acc.ub \/ f.ub]

\* read_ladder_attack, lines 1304-1308: f is what fix_atari left for the
\* position after the liberty l was played.
rla_caught(acc, l, f) ==
    [move |-> IF f.ret # 0 /\ Len(f.moves) = 0 THEN l ELSE acc.move,
     ub   |-> acc.ub \/ f.ub]

\* read_ladder_attack, lines 1298-1308: r is what play_move(&pos_l, l) left.
rla_played(pt, l, acc, r) ==
    IF r.ret # "" THEN acc
    ELSE rla_caught(acc, l,
                    fix_atari(r.pos, pt, SINGLEPT_NOK, TWOLIBS_TEST_NO, 0,
                              r.pos_capture, LadderRoom))

\* FORALL_IN_SLIST(libs, l); acc = [move, ub].
RECURSIVE rla_loop(_, _, _, _, _, _)
rla_loop(pos, pt, libs, pc, acc, i) ==
    IF i > Len(libs) THEN acc
    ELSE rla_loop(pos, pt, libs, pc,
                  rla_played(pt, libs[i], acc, play_move(pos, libs[i], pc)),
                  i + 1)

\* Point read_ladder_attack(Position *pos, Point pt, Slist libs); it plays on
\* copies of pos and puts the global pos_capture back to pc, so that the
\* result is the move (0: none) and whether an array was overrun.
read_ladder_attack(pos, pt, libs, pc) ==
    rla_loop(pos, pt, libs, pc, [move |-> 0, ub |-> FALSE], 1)

\* fix_atari, lines 1343-1347: la is what read_ladder_attack returned.
fa_ladder_attack(la, nstones, room) ==
    IF la.move # 0
    THEN slist_insert([NoMoves EXCEPT !.ub = la.ub], la.move, nstones, room)
    ELSE [NoMoves EXCEPT !.ub = la.ub]

\* fix_atari, lines 1381-1385: la is what read_ladder_attack returned, or no
\* move when it was not called.
fa_decide(m, l, size, nlibs, la, room) ==
    IF fa_escape_ok(Len(m.moves), nlibs, la.move)
    THEN slist_insert([m EXCEPT !.ub = @ \/ la.ub], l, size, room)
    ELSE [m EXCEPT !.ub = @ \/ la.ub]

\* fix_atari, lines 1375-1387: the escape l was played and left escpos, in
\* which e is the block of l.
fa_escaped(m, l, escpos, e, pc, room) ==
    IF Len(e.libs) < 2 THEN fa_result(1, m, pc)
    ELSE fa_result(1,
           fa_decide(m, l, Len(e.stones), Len(e.libs),
                     IF Len(m.moves) <= 1 /\ Len(e.libs) = 2
                     THEN read_ladder_attack(escpos, l, e.libs, pc)
                     ELSE [move |-> 0, ub |-> FALSE],
                     room),
           pc)

\* fix_atari, lines 1372-1376: r is what play_move(&escpos, l) left; on an
\* error the function returns before it puts pos_capture back.
fa_escape(m, l, r, pc, room) ==
    IF r.ret # "" THEN fa_result(1, m, r.pos_capture)
    ELSE fa_escaped(m, l, r.pos, compute_block(r.pos, l, 3), pc, room)

\* fix_atari, lines 1331-1372, b being the block of pt (maxlibs is 3).
fa_block(pos, pt, singlept_ok, twolib_test, twolib_edgeonly, pc, room, b) ==
    IF fa_skip_single(singlept_ok, Len(b.stones))
    THEN fa_result(0, NoMoves, pc)
    ELSE IF Len(b.libs) >= 2
    THEN IF twolib_test # 0 /\ Len(b.libs) = 2 /\ Len(b.stones) > 1
            /\ ~(twolib_edgeonly # 0
                 /\ (line_height(b.libs[1]) > 0 \/ line_height(b.libs[2]) > 0))
         THEN fa_result(0,
                fa_ladder_attack(read_ladder_attack(pos, pt, b.libs, pc),
                                 Len(b.stones), room),
                pc)
         ELSE fa_result(0, NoMoves, pc)
    ELSE IF pos.color[pt] = "x"
    THEN fa_capture(b, room, pc)
    ELSE fa_escape(
           fa_countercaptures(NoMoves,
               make_list_neighbor_blocks_in_atari(pos, b.stones),
               Len(b.stones), room, 1),
           b.libs[1], play_move(pos, b.libs[1], pc), pc, room)

\* int fix_atari(pos, pt, singlept_ok, twolib_test, twolib_edgeonly, moves,
\* sizes), called when the global pos_capture is pc, with arrays moves and
\* sizes of room Points.
fix_atari(pos, pt, singlept_ok, twolib_test, twolib_edgeonly, pc, room) ==
    fa_block(pos, pt, singlept_ok, twolib_test, twolib_edgeonly, pc, room,
             compute_block(pos, pt, 3))


\* ------------------------------------------------------------ new game
\* Values an uninitialised word or byte may hold (a Position is malloc'ed or a
\* local, and empty_position leaves ko_old, last3 and the env4/env4d entries
\* of the off-board points unwritten).
GarbagePoint(g) == g * 65535
GarbageByte(g) == g * 255

\* char* empty_position(Position *pos), on memory whose garbage is g.
\* komi is kept in half points (7.5 -> 15).
empty_position(g) ==
    [color  |-> EmptyColor,
     env4   |-> [i \in Index |->
                   IF i \in OnBoard
                   THEN compute_env4([color |-> EmptyColor, n |-> 0], i, 0)
                   ELSE GarbageByte(g)],
     env4d  |-> [i \in Index |->
                   IF i \in OnBoard
                   THEN compute_env4([color |-> EmptyColor, n |-> 0], i, 4)
                   ELSE GarbageByte(g)],
     n      |-> 0,
     ko     |-> 0, ko_old |-> GarbagePoint(g),
     last   |-> 0, last2 |-> 0, last3 |-> GarbagePoint(g),
     komi   |-> 15,
     cap    |-> 0, capX |-> 0]

\* The value of io before any string is read.
NoIo == [s |-> << >>, pt |-> 0, str |-> << >>, answer |-> << >>]

\* The empty function, for a table and for a file that holds nothing.
NoEntries == [h \in {} |-> 0]

\* The value of pat before the pattern tables are built: no file, an empty
\* dictionary, no query.
NoPat ==
    [query |-> "", pt |-> 0, match |-> FALSE,
     files |-> [prob_ok |-> FALSE, spat_ok |-> FALSE, prob |-> NoEntries,
                spat |-> << >>],
     dict |-> [large_patterns_loaded |-> 0, patterns |-> NoEntries,
               oob |-> FALSE],
     n0 |-> 0, prob |-> 0, ids |-> << >>, rec |-> 0, perm |-> 0,
     found |-> FALSE, oob |-> FALSE, crash |-> FALSE]

\* The value of tree before any call of expand or tree_search.
NoTree == [children |-> << >>, nchildren |-> 0, room |-> 0, move |-> 0]

\* The value of fa before any call of fix_atari.
NoFix ==
    [singlept_ok |-> 0, twolib_test |-> 0, twolib_edgeonly |-> 0,
     ret |-> 0, moves |-> << >>, sizes |-> << >>, ub |-> FALSE]


\* ------------------------------------------------------------ tree search
RESIGN_MOVE == 1

\* char is_eye(Position *pos, Point pt), lines 928-941: the diagonal
\* neighbours of colour falsecolor, one more when a diagonal is off board.
is_eye_false_count(pos, pt, falsecolor) ==
    Cardinality({k \in 5..8 : pos.color[pt + delta[k]] = falsecolor})
    + (IF \E k \in 5..8 : pos.color[pt + delta[k]] = " " THEN 1 ELSE 0)

is_eye_checked_eyeish(pos, pt, eyecolor) == eyecolor

is_eye_checked(pos, pt, eyecolor) ==
    IF eyecolor = "" THEN ""
    ELSE IF is_eye_false_count(pos, pt, SWAP_CASE(eyecolor)) >= 2 THEN ""
    ELSE eyecolor

\* char is_eye(Position *pos, Point pt): "" (0) or the colour of the eye.
is_eye(pos, pt) == is_eye_checked(pos, pt, is_eyeish(pos, pt))

\* The indices in the order gen_playout_moves_random visits them: i0 ..
\* BOARD_IMAX-1, then BOARD_IMIN-1 .. i0-1.
gpm_order(i0) ==
    [k \in 1..(BOARD_IMAX - BOARD_IMIN + 1) |->
        IF i0 + k - 1 < BOARD_IMAX THEN i0 + k - 1
        ELSE BOARD_IMIN - 1 + (i0 + k - 1 - BOARD_IMAX)]

gen_playout_moves_random_eyes(pos, i0) ==
    SelectSeq(gpm_order(i0), LAMBDA i : pos.color[i] = ".")

\* int gen_playout_moves_random(pos, moves, i0): the empty points that are
\* not true eyes of the player.
gen_playout_moves_random(pos, i0) ==
    SelectSeq(gpm_order(i0),
              LAMBDA i : pos.color[i] = "." /\ is_eye(pos, i) # "X")

\* ------------------------------------------------------------ coordinates
\* A character is its ASCII code and a string is the sequence of its
\* characters up to the terminating NUL.
Upper ==
    << "A", "B", "C", "D", "E", "F", "G", "H", "I", "J", "K", "L", "M",
       "N", "O", "P", "Q", "R", "S", "T", "U", "V", "W", "X", "Y", "Z" >>
Lower ==
    << "a", "b", "c", "d", "e", "f", "g", "h", "i", "j", "k", "l", "m",
       "n", "o", "p", "q", "r", "s", "t", "u", "v", "w", "x", "y", "z" >>
Digit == << "0", "1", "2", "3", "4", "5", "6", "7", "8", "9" >>

InSeq(seq, c) == \E k \in 1..Len(seq) : seq[k] = c
IndexOf(seq, c) == CHOOSE k \in 1..Len(seq) : seq[k] = c

\* The code of the character c: 'A' is 65, 'a' is 97, '0' is 48, and the
\* only other character written here is '@', 64.
Ord(c) ==
    IF InSeq(Upper, c) THEN 64 + IndexOf(Upper, c)
    ELSE IF InSeq(Lower, c) THEN 96 + IndexOf(Lower, c)
    ELSE IF InSeq(Digit, c) THEN 47 + IndexOf(Digit, c)
    ELSE 64

\* The string written with the characters of seq.
Text(seq) == [k \in 1..Len(seq) |-> Ord(seq[k])]

IsUpper(c) == c \in Ord("A")..Ord("Z")
IsLower(c) == c \in Ord("a")..Ord("z")
IsDigit(c) == c \in Ord("0")..Ord("9")

toupper(c) == IF IsLower(c) THEN c - Ord("a") + Ord("A") ELSE c
tolower(c) == IF IsUpper(c) THEN c - Ord("A") + Ord("a") ELSE c

\* strcasecmp(a, b) == 0
strcasecmp_equal(a, b) ==
    /\ Len(a) = Len(b)
    /\ \A k \in 1..Len(a) : tolower(a[k]) = tolower(b[k])

\* The digits %d reads at the head of s: the longest run of digits.
RECURSIVE scan_digits(_)
scan_digits(s) ==
    IF s # << >> /\ IsDigit(Head(s))
    THEN << Head(s) >> \o scan_digits(Tail(s))
    ELSE << >>

\* The number the digits ds stand for, after the digits read before them
\* have given acc.
RECURSIVE digits_value(_, _)
digits_value(ds, acc) ==
    IF ds = << >> THEN acc
    ELSE digits_value(Tail(ds), 10 * acc + Head(ds) - Ord("0"))

\* sscanf(s, "%c%d", &c, &y) on a string that holds a character followed by
\* at least one digit.
sscanf_cd(s) ==
    [c |-> Head(s), y |-> digits_value(scan_digits(Tail(s)), 0)]

\* Point parse_coord(char *s)
parse_coord(s) ==
    IF strcasecmp_equal(s, Text(<< "p", "a", "s", "s" >>)) THEN PASS_MOVE
    ELSE LET r == sscanf_cd(s)
             c == toupper(r.c)
             x == IF c < Ord("J") THEN c - Ord("@") ELSE c - Ord("@") - 1
         IN  (N - r.y + 1) * (N + 1) + x

\* What %d prints for n >= 0.
RECURSIVE decimal(_)
decimal(n) ==
    IF n < 10 THEN << Ord("0") + n >>
    ELSE decimal(n \div 10) \o << Ord("0") + (n % 10) >>

\* sprintf(str, "%c%d", c, n)
sprintf_cd(c, n) ==
    << c >> \o (IF n < 0 THEN Text(<< "-" >>) \o decimal(0 - n)
                ELSE decimal(n))

str_coord_noskip(pt) ==
    IF pt = PASS_MOVE THEN Text(<< "p", "a", "s", "s" >>)
    ELSE IF pt = RESIGN_MOVE THEN Text(<< "r", "e", "s", "i", "g", "n" >>)
    ELSE LET row == pt \div (N + 1)
             col == pt % (N + 1)
         IN  sprintf_cd(Ord("@") + col, N + 1 - row)

\* char* str_coord(Point pt, char str[8])
str_coord(pt) ==
    IF pt = PASS_MOVE THEN Text(<< "p", "a", "s", "s" >>)
    ELSE IF pt = RESIGN_MOVE THEN Text(<< "r", "e", "s", "i", "g", "n" >>)
    ELSE LET row == pt \div (N + 1)
             col == pt % (N + 1)
             str == sprintf_cd(Ord("@") + col, N + 1 - row)
         IN  IF str[1] > Ord("H")
             THEN [str EXCEPT ![1] = str[1] + 1]
             ELSE str


\* ------------------------------------------------------------ 3x3 patterns
\* char pat3src[][10]: a pattern is the sequence of its 9 characters, row by
\* row from the north-west corner.
pat3src ==
    << << "X", "O", "X", ".", ".", ".", "?", "?", "?" >>,
       << "X", "O", ".", ".", ".", ".", "?", ".", "?" >>,
       << "X", "O", "?", "X", ".", ".", "x", ".", "?" >>,
       << ".", "O", ".", "X", ".", ".", ".", ".", "." >>,
       << "X", "O", "?", "O", ".", "o", "?", "o", "?" >>,
       << "X", "O", "?", "O", ".", "X", "?", "?", "?" >>,
       << "?", "X", "?", "O", ".", "O", "o", "o", "o" >>,
       << "O", "X", "?", "o", ".", "O", "?", "?", "?" >>,
       << "X", ".", "?", "O", ".", "?", "#", "#", "?" >>,
       << "O", "X", "?", "X", ".", "O", "#", "#", "#" >>,
       << "?", "X", "?", "x", ".", "O", "#", "#", "#" >>,
       << "?", "X", "O", "x", ".", "x", "#", "#", "#" >>,
       << "?", "O", "X", "X", ".", "O", "#", "#", "#" >> >>

\* int code(char color, int p)
code(color, p) ==
    CASE color = "O" -> 0
      [] color = "X" -> 2 ^ p
      [] color = "." -> 16 * (2 ^ p)
      [] color = "#" -> 17 * (2 ^ p)
      [] OTHER       -> 0

\* int compute_code(char *src); src[i] of the code is src[i + 1] here, and the
\* eight codes set disjoint bits, so that |= adds them.
compute_code(src) ==
    code(src[2], 0) + code(src[6], 1) + code(src[8], 2) + code(src[4], 3)
    + 256 * (code(src[3], 0) + code(src[9], 1) + code(src[7], 2)
             + code(src[1], 3))

\* void pat_wildexp(char *src, int i): the codes env8 whose bit it sets in
\* pat3set.
RECURSIVE pat_wildexp(_, _)
pat_wildexp(src, i) ==
    IF i = 9 THEN {compute_code(src)}
    ELSE IF src[i + 1] = "?"
    THEN UNION {pat_wildexp([src EXCEPT ![i + 1] = c], i + 1) :
                    c \in {"X", "O", ".", "#"}}
    ELSE IF src[i + 1] = "x"
    THEN UNION {pat_wildexp([src EXCEPT ![i + 1] = c], i + 1) :
                    c \in {"O", ".", "#"}}
    ELSE IF src[i + 1] = "o"
    THEN UNION {pat_wildexp([src EXCEPT ![i + 1] = c], i + 1) :
                    c \in {"X", ".", "#"}}
    ELSE pat_wildexp(src, i + 1)

\* char *swapcolor(char *src)
swapcolor(src) ==
    [i \in 1..9 |->
        CASE src[i] = "X" -> "O"
          [] src[i] = "O" -> "X"
          [] src[i] = "x" -> "o"
          [] src[i] = "o" -> "x"
          [] OTHER        -> src[i]]

\* char* horizflip(char *src)
horizflip(src) ==
    [src EXCEPT ![1] = src[7], ![7] = src[1],
                ![2] = src[8], ![8] = src[2],
                ![3] = src[9], ![9] = src[3]]

\* char* vertflip(char *src)
vertflip(src) ==
    [src EXCEPT ![1] = src[3], ![3] = src[1],
                ![4] = src[6], ![6] = src[4],
                ![7] = src[9], ![9] = src[7]]

rot90_cornersonly(src) ==
    [src EXCEPT ![1] = src[3], ![3] = src[9], ![9] = src[7], ![7] = src[1]]

\* char* rot90(char *src)
rot90(src) ==
    [src EXCEPT ![1] = src[3], ![3] = src[9], ![9] = src[7], ![7] = src[1],
                ![2] = src[6], ![6] = src[8], ![8] = src[4], ![4] = src[2]]

pat_enumerate3(src) == pat_wildexp(src, 0) \cup pat_wildexp(swapcolor(src), 0)

pat_enumerate2(src) == pat_enumerate3(src) \cup pat_enumerate3(horizflip(src))

pat_enumerate1(src) == pat_enumerate2(src) \cup pat_enumerate2(vertflip(src))

pat_enumerate(src) == pat_enumerate1(src) \cup pat_enumerate1(rot90(src))

\* void make_pat3set(void): the set of the env8 whose bit is set in pat3set
\* (the bit r = env8 & 7 of the byte q = env8 >> 3).
make_pat3set == UNION {pat_enumerate(pat3src[p]) : p \in 1..Len(pat3src)}

\* Byte pat3set[8192] after make_pat3set, which main calls before any
\* command is read.
pat3set == make_pat3set

\* int pat3_match(Position *pos, Point pt)
pat3_match(pos, pt) == (pos.env4d[pt] * 256 + pos.env4[pt]) \in pat3set


\* ------------------------------------------------------------ large patterns
\* An unsigned long (64 bits) is kept as its four 16-bit parts, the highest
\* first, and an unsigned int (32 bits) as its two.
Bits16 == 65536

\* a ^ b on 4-bit values
Xor4(a, b) ==
    ((a + b) % 2)
    + 2 * (((a \div 2) + (b \div 2)) % 2)
    + 4 * (((a \div 4) + (b \div 4)) % 2)
    + 8 * (((a \div 8) + (b \div 8)) % 2)

\* a ^ b on 16-bit values
Xor16(a, b) ==
    Xor4(a % 16, b % 16)
    + 16 * Xor4((a \div 16) % 16, (b \div 16) % 16)
    + 256 * Xor4((a \div 256) % 16, (b \div 256) % 16)
    + 4096 * Xor4(a \div 4096, b \div 4096)

\* k ^ z on unsigned long
Xor64(k, z) ==
    << Xor16(k[1], z[1]), Xor16(k[2], z[2]),
       Xor16(k[3], z[3]), Xor16(k[4], z[4]) >>

ZeroKey == << 0, 0, 0, 0 >>

\* unsigned int qdrandom(void): idum = 1664525 * idum + 1013904223, modulo
\* 2^32; 1664525 is 25 * 2^16 + 26125 and 1013904223 is 15470 * 2^16 + 62303.
qdrandom(idum) ==
    LET lo == idum[2] * 26125 + 62303
        hi == idum[1] * 26125 + idum[2] * 25 + 15470 + (lo \div Bits16)
    IN  << hi % Bits16, lo % Bits16 >>

\* init_zobrist_hashdata, lines 426-430: the four entries of one displacement
\* d, drawn from the generator in the state idum; each entry is
\* (d1 << 32) + d2 for two successive draws.
zobrist_row(idum) ==
    LET r1 == qdrandom(idum)
        r2 == qdrandom(r1)
        r3 == qdrandom(r2)
        r4 == qdrandom(r3)
        r5 == qdrandom(r4)
        r6 == qdrandom(r5)
        r7 == qdrandom(r6)
        r8 == qdrandom(r7)
    IN  [row |-> << r1 \o r2, r3 \o r4, r5 \o r6, r7 \o r8 >>, idum |-> r8]

\* init_zobrist_hashdata, line 425: the rows of n successive displacements,
\* drawn from the generator in the state idum, and the state it is left in.
\* The rows of the second half are drawn from the state the first half left.
RECURSIVE zobrist_rows(_, _)
zobrist_rows(idum, n) ==
    IF n = 1
    THEN LET r == zobrist_row(idum)
         IN  [rows |-> << r.row >>, idum |-> r.idum]
    ELSE LET a == zobrist_rows(idum, n \div 2)
             b == zobrist_rows(a.idum, n - (n \div 2))
         IN  [rows |-> a.rows \o b.rows, idum |-> b.idum]

\* unsigned long zobrist_hashdata[141][4] after init_zobrist_hashdata, which
\* main calls while idum still is 1: zobrist_hashdata[d][c] of the code is
\* zobrist_hashdata[d + 1][c + 1] here.
zobrist_hashdata == zobrist_rows(<< 0, 1 >>, 141).rows

\* init_stone_color: the index of a character in zobrist_hashdata[d].
stone_color(ch) ==
    CASE ch = "." -> 0
      [] ch \in {"#", " "} -> 1
      [] ch \in {"O", "x"} -> 2
      [] ch = "X" -> 3
      [] OTHER -> 0

\* zobrist_hash, lines 437-439: the ^ of zobrist_hashdata[i][c] over the
\* characters i .. j - 1 (counted from 0), taken by halves.
RECURSIVE zobrist_hash_from(_, _, _)
zobrist_hash_from(strpat, i, j) ==
    IF j = i THEN ZeroKey
    ELSE IF j = i + 1
    THEN zobrist_hashdata[i + 1][stone_color(strpat[i + 1]) + 1]
    ELSE Xor64(zobrist_hash_from(strpat, i, (i + j) \div 2),
               zobrist_hash_from(strpat, (i + j) \div 2, j))

\* unsigned long zobrist_hash(char *pat)
zobrist_hash(strpat) == zobrist_hash_from(strpat, 0, Len(strpat))


\* Shift pat_gridcular_seq[]: the displacements << x, y >> from the central
\* point; pat_gridcular_seq[i] of the code is pat_gridcular_seq[i + 1] here.
pat_gridcular_seq ==
    << << 0, 0 >>, << 0, 1 >>, << 0, -1 >>, << 1, 0 >>, << -1, 0 >>,
       << 1, 1 >>, << -1, 1 >>, << 1, -1 >>, << -1, -1 >>, << 0, 2 >>,
       << 0, -2 >>, << 2, 0 >>, << -2, 0 >>, << 1, 2 >>, << -1, 2 >>,
       << 1, -2 >>, << -1, -2 >>, << 2, 1 >>, << -2, 1 >>, << 2, -1 >>,
       << -2, -1 >>, << 0, 3 >>, << 0, -3 >>, << 2, 2 >>, << -2, 2 >>,
       << 2, -2 >>, << -2, -2 >>, << 3, 0 >>, << -3, 0 >>, << 1, 3 >>,
       << -1, 3 >>, << 1, -3 >>, << -1, -3 >>, << 3, 1 >>, << -3, 1 >>,
       << 3, -1 >>, << -3, -1 >>, << 0, 4 >>, << 0, -4 >>, << 2, 3 >>,
       << -2, 3 >>, << 2, -3 >>, << -2, -3 >>, << 3, 2 >>, << -3, 2 >>,
       << 3, -2 >>, << -3, -2 >>, << 4, 0 >>, << -4, 0 >>, << 1, 4 >>,
       << -1, 4 >>, << 1, -4 >>, << -1, -4 >>, << 3, 3 >>, << -3, 3 >>,
       << 3, -3 >>, << -3, -3 >>, << 4, 1 >>, << -4, 1 >>, << 4, -1 >>,
       << -4, -1 >>, << 0, 5 >>, << 0, -5 >>, << 2, 4 >>, << -2, 4 >>,
       << 2, -4 >>, << -2, -4 >>, << 4, 2 >>, << -4, 2 >>, << 4, -2 >>,
       << -4, -2 >>, << 5, 0 >>, << -5, 0 >>, << 1, 5 >>, << -1, 5 >>,
       << 1, -5 >>, << -1, -5 >>, << 3, 4 >>, << -3, 4 >>, << 3, -4 >>,
       << -3, -4 >>, << 4, 3 >>, << -4, 3 >>, << 4, -3 >>, << -4, -3 >>,
       << 5, 1 >>, << -5, 1 >>, << 5, -1 >>, << -5, -1 >>, << 0, 6 >>,
       << 0, -6 >>, << 2, 5 >>, << -2, 5 >>, << 2, -5 >>, << -2, -5 >>,
       << 4, 4 >>, << -4, 4 >>, << 4, -4 >>, << -4, -4 >>, << 5, 2 >>,
       << -5, 2 >>, << 5, -2 >>, << -5, -2 >>, << 6, 0 >>, << -6, 0 >>,
       << 1, 6 >>, << -1, 6 >>, << 1, -6 >>, << -1, -6 >>, << 3, 5 >>,
       << -3, 5 >>, << 3, -5 >>, << -3, -5 >>, << 5, 3 >>, << -5, 3 >>,
       << 5, -3 >>, << -5, -3 >>, << 6, 1 >>, << -6, 1 >>, << 6, -1 >>,
       << -6, -1 >>, << 0, 7 >>, << 0, -7 >>, << 2, 6 >>, << -2, 6 >>,
       << 2, -6 >>, << -2, -6 >>, << 4, 5 >>, << -4, 5 >>, << 4, -5 >>,
       << -4, -5 >>, << 5, 4 >>, << -5, 4 >>, << 5, -4 >>, << -5, -4 >>,
       << 6, 2 >>, << -6, 2 >>, << 6, -2 >>, << -6, -2 >>, << 7, 0 >>,
       << -7, 0 >> >>

\* int pat_gridcular_size[13]; pat_gridcular_size[s] of the code is
\* pat_gridcular_size[s + 1] here.
pat_gridcular_size == << 0, 9, 13, 21, 29, 37, 49, 61, 73, 89, 105, 121, 141 >>

\* The 16 entries of primes[32] that find_pat can select.
primes ==
    << 5, 11, 37, 103, 293, 991, 2903, 9931,
       7, 19, 73, 10009, 11149, 12553, 6229, 10181 >>

KSIZE == 25
LENGTH == 2 ^ KSIZE

\* void init_gridcular(Shift seq[141], int seq1d[141])
init_gridcular(seq) == [i \in 1..Len(seq) |-> seq[i][1] - seq[i][2] * (N + 7)]

pat_gridcular_seq1d == init_gridcular(pat_gridcular_seq)

\* int gridcular_index(int disp), counted from 0; -1 when disp is not found.
gridcular_index(disp) ==
    IF \E i \in 1..141 : pat_gridcular_seq1d[i] = disp
    THEN (CHOOSE i \in 1..141 : pat_gridcular_seq1d[i] = disp) - 1
    ELSE -1

\* gridcular_register, lines 482-484: the permutation registered for seq.
gridcular_register(seq) ==
    [i \in 1..Len(seq) |-> gridcular_index(init_gridcular(seq)[i])]

\* gridcular_enumerate2: seq, then its horizontal flip.
gridcular_enumerate2(seq) ==
    << gridcular_register(seq),
       gridcular_register([i \in 1..Len(seq) |->
                              << seq[i][1], 0 - seq[i][2] >>]) >>

\* gridcular_enumerate1: seq, then its vertical flip.
gridcular_enumerate1(seq) ==
    gridcular_enumerate2(seq)
    \o gridcular_enumerate2([i \in 1..Len(seq) |->
                                << 0 - seq[i][1], seq[i][2] >>])

\* void gridcular_enumerate(int p[8][141]) on pat_gridcular_seq: seq, then
\* its rotation by 90 degrees.
gridcular_enumerate(seq) ==
    gridcular_enumerate1(seq)
    \o gridcular_enumerate1([i \in 1..Len(seq) |->
                                << 0 - seq[i][2], seq[i][1] >>])

\* int permutation[8][141] of load_spat_file; permutation[i][k] of the code
\* is permutation[i + 1][k + 1] here.
permutation == gridcular_enumerate(pat_gridcular_seq)

\* void permute(permutation, i, strpat, strperm) on a pattern whose length
\* is a ring boundary, so that every permutation[i][k] read lies inside it.
permute(i, strpat) ==
    [k \in 1..Len(strpat) |-> strpat[permutation[i + 1][k] + 1]]

\* find_pat, line 381: h and h2 of the key.
hash_h(key) == (key[2] * 4096 + (key[3] \div 16)) % LENGTH
hash_h2(key) == primes[(key[2] \div 8192) + 8 * (key[1] % 2) + 1]

\* patterns[h].key as find_pat reads it.  The table is kept as the function
\* of its non zero entries.  patterns[LENGTH] lies after the allocated array:
\* what is read there is stray, "zero" for a zero word, "kept" for what
\* insert_pat wrote there before (a zero word if it wrote nothing), "other"
\* for a non zero word that is not the key.
slot_key(tab, h, key, stray) ==
    IF h = LENGTH /\ stray = "zero" THEN ZeroKey
    ELSE IF h = LENGTH /\ stray = "other" THEN Xor64(key, << 0, 0, 0, 1 >>)
    ELSE IF h \in DOMAIN tab THEN tab[h].key
    ELSE ZeroKey

\* find_pat, line 389: h+=h2; if (h>LENGTH) h -= LENGTH;
find_pat_next(h, h2) == IF h + h2 > LENGTH THEN h + h2 - LENGTH ELSE h + h2

\* find_pat, lines 383-390: the loop from the slot h; oob tells that
\* patterns[LENGTH] was read.
RECURSIVE find_pat_from(_, _, _, _, _, _)
find_pat_from(tab, key, h, h2, stray, oob) ==
    LET here == slot_key(tab, h, key, stray)
        out  == oob \/ h = LENGTH
    IN  IF here = key \/ here = ZeroKey
        THEN [h |-> h, key |-> here, oob |-> out]
        ELSE find_pat_from(tab, key, find_pat_next(h, h2), h2, stray, out)

\* int find_pat(unsigned long key)
find_pat(tab, key, stray) ==
    find_pat_from(tab, key, hash_h(key), hash_h2(key), stray, FALSE)

\* int insert_pat(LargePat p) on the dictionary d = [patterns, oob].
insert_pat(d, p, stray) ==
    LET f == find_pat(d.patterns, p.key, stray)
    IN  [patterns |-> IF f.key = ZeroKey
                      THEN (f.h :> p) @@ d.patterns
                      ELSE d.patterns,
         oob |-> d.oob \/ f.oob]

\* probs[id] after load_prob_file: probabilities are kept in thousandths,
\* the file is the function from its ids to their probabilities, and calloc
\* left 0 everywhere else.
probs_of(probfile, id) == IF id \in DOMAIN probfile THEN probfile[id] ELSE 0

\* load_spat_file, lines 567-573: the permutations i .. 7 of one record.
\* Nothing more is loaded once the read of patterns[LENGTH] has ended the
\* process (stray = "crash").
RECURSIVE load_record(_, _, _, _, _)
load_record(d, rec, probfile, i, stray) ==
    IF i = 8 \/ (d.oob /\ stray = "crash") THEN d
    ELSE load_record(
            insert_pat(d, [key |-> zobrist_hash(permute(i, rec.strpat)),
                           id |-> rec.id,
                           prob |-> probs_of(probfile, rec.id)], stray),
            rec, probfile, i + 1, stray)

\* int load_spat_file(FILE *f): the records of the file from the n-th on.
RECURSIVE load_spat_file(_, _, _, _, _)
load_spat_file(d, spatfile, probfile, n, stray) ==
    IF n > Len(spatfile) THEN d
    ELSE load_spat_file(load_record(d, spatfile[n], probfile, 0, stray),
                        spatfile, probfile, n + 1, stray)

\* A loader that reads patterns.spat whether or not fopen succeeded.
init_large_patterns_unguarded(files, stray) ==
    LET probfile == IF files.prob_ok THEN files.prob ELSE NoEntries
        d == load_spat_file([patterns |-> NoEntries, oob |-> FALSE],
                            files.spat, probfile, 1, stray)
    IN  [large_patterns_loaded |-> 1,
         patterns |-> d.patterns,
         oob |-> d.oob]

\* void init_large_patterns(void); files = [prob_ok, spat_ok, prob, spat]
\* tells which of the two files can be opened and what they hold.
init_large_patterns(files, stray) ==
    LET probfile == IF files.prob_ok THEN files.prob ELSE NoEntries
        d == IF files.spat_ok
             THEN load_spat_file([patterns |-> NoEntries, oob |-> FALSE],
                                 files.spat, probfile, 1, stray)
             ELSE [patterns |-> NoEntries, oob |-> FALSE]
    IN  [large_patterns_loaded |-> IF files.spat_ok THEN 1 ELSE 0,
         patterns |-> d.patterns,
         oob |-> d.oob]

\* compute_large_coord: large_coord[pt].
large_coord(pt) ==
    LET y == (pt \div (N + 1)) - 1
        x == (pt % (N + 1)) - 1
    IN  (y + 7) * (N + 7) + x + 7

\* init_large_board and copy_to_large_board(pos): the character of the
\* large board at lpt, given the color[] of the position.
large_board_at(color, lpt) ==
    LET y == (lpt \div (N + 7)) - 7
        x == (lpt % (N + 7)) - 7
    IN  IF x \in 0..(N - 1) /\ y \in 0..(N - 1)
        THEN color[(y + 1) * (N + 1) + x + 1]
        ELSE "#"

\* update_zobrist_hash_at_point, lines 448-451: the ^ of
\* zobrist_hashdata[i][c] over the displacements i .. imax - 1, taken by
\* halves.
RECURSIVE update_zobrist_from(_, _, _, _)
update_zobrist_from(color, lpt, i, imax) ==
    IF imax = i + 1
    THEN zobrist_hashdata[i + 1]
            [stone_color(large_board_at(color,
                lpt + pat_gridcular_seq1d[i + 1])) + 1]
    ELSE Xor64(update_zobrist_from(color, lpt, i, (i + imax) \div 2),
               update_zobrist_from(color, lpt, (i + imax) \div 2, imax))

\* unsigned long update_zobrist_hash_at_point(Point pt, int size,
\* unsigned long k) on the large board of the given color[].
update_zobrist_hash_at_point(color, lpt, size, k) ==
    Xor64(k, update_zobrist_from(color, lpt, pat_gridcular_size[size],
                                 pat_gridcular_size[size + 1]))

\* large_pattern_probability, line 698.
lpp_breaks(matched_len, non_matched_len, len) ==
    matched_len < non_matched_len /\ non_matched_len < len

\* large_pattern_probability, lines 690-702: the loop from the ring s on;
\* a = [prob, matched_len, non_matched_len, k, oob].
RECURSIVE lpp_loop(_, _, _, _, _, _)
lpp_loop(d, color, pt, s, a, stray) ==
    IF s = 13 THEN a
    ELSE LET len == pat_gridcular_size[s + 1]
             k   == update_zobrist_hash_at_point(color, large_coord(pt), s, a.k)
             f   == find_pat(d.patterns, k, stray)
             b   == [a EXCEPT !.k = k, !.oob = a.oob \/ f.oob]
         IN  IF f.key = k
             THEN lpp_loop(d, color, pt, s + 1,
                           [b EXCEPT !.prob = d.patterns[f.h].prob,
                                     !.matched_len = len], stray)
             ELSE IF lpp_breaks(a.matched_len, a.non_matched_len, len)
             THEN b
             ELSE lpp_loop(d, color, pt, s + 1,
                           [b EXCEPT !.non_matched_len = len], stray)

\* double large_pattern_probability(Point pt), after copy_to_large_board on
\* a position of the given color[]; -1.0 is -1000 thousandths.
large_pattern_probability(d, color, pt, stray) ==
    IF d.large_patterns_loaded # 0
    THEN lpp_loop(d, color, pt, 1,
                  [prob |-> -1000, matched_len |-> 0, non_matched_len |-> 0,
                   k |-> ZeroKey, oob |-> FALSE], stray)
    ELSE [prob |-> -1000, matched_len |-> 0, non_matched_len |-> 0,
          k |-> ZeroKey, oob |-> FALSE]

\* make_list_pat_matching, lines 716-726: the loop from the ring s on;
\* a = [ids, k, oob].
RECURSIVE mlpm_loop(_, _, _, _, _, _)
mlpm_loop(d, color, pt, s, a, stray) ==
    IF s = 13 THEN a
    ELSE LET k == update_zobrist_hash_at_point(color, large_coord(pt), s, a.k)
             f == find_pat(d.patterns, k, stray)
         IN  IF f.key = k
             THEN mlpm_loop(d, color, pt, s + 1,
                            [ids |-> Append(a.ids, d.patterns[f.h].id),
                             k   |-> k,
                             oob |-> a.oob \/ f.oob], stray)
             ELSE mlpm_loop(d, color, pt, s + 1,
                            [ids |-> a.ids,
                             k   |-> k,
                             oob |-> a.oob \/ f.oob], stray)

\* char* make_list_pat_matching(Point pt, int verbose): the ids listed.
make_list_pat_matching(d, color, pt, stray) ==
    IF d.large_patterns_loaded = 0
    THEN [ids |-> << >>, k |-> ZeroKey, oob |-> FALSE]
    ELSE mlpm_loop(d, color, pt, 1,
                   [ids |-> << >>, k |-> ZeroKey, oob |-> FALSE], stray)


\* ------------------------------------------------------------ playouts
\* The element of the singleton s (the expression that gives it is
\* evaluated once, whatever the number of places that use it).
The(s) == CHOOSE v \in s : TRUE

\* choose_from, line 1511: Point ds[20]; Info sizes[20].
DsRoom == 20

\* choose_from, lines 1520-1522: r is what random_int(10000) returned;
\* PROB_RSAREJECT is 0.5 and PROB_SSAREJECT is 0.9.
cf_tstrej(kind, r) ==
    IF kind = "random" THEN r <= 5000 ELSE r <= 9000

\* choose_from, lines 1526-1531: the trial move pt, which left r, is taken
\* back and undo_move leaves u.  s is [pos, pos_capture, move, rejected];
\* rejected lists, for every trial move that was undone, the move and the
\* position before it, after it and after undo_move.
cf_undone(s, pt, r, f, u) ==
    [pos |-> u, pos_capture |-> f.pos_capture, move |-> PASS_MOVE,
     rejected |-> Append(s.rejected,
                         [pt |-> pt, before |-> s.pos, played |-> r.pos,
                          after |-> u])]

\* choose_from, lines 1524-1534: f is what fix_atari left for the trial move.
cf_tested(s, pt, r, f) ==
    IF Len(f.moves) > 0
    THEN The({cf_undone(s, pt, r, f, u) :
                 u \in {undo_move(r.pos, f.pos_capture)}})
    ELSE [s EXCEPT !.pos = r.pos, !.pos_capture = f.pos_capture,
                   !.move = pt]

\* choose_from, lines 1516-1535: r is what play_move(pos, pt) left and draw
\* what random_int(10000) returns if the move is legal.
cf_played(s, pt, kind, draw, r) ==
    IF r.ret # ""
    THEN [s EXCEPT !.pos = r.pos, !.pos_capture = r.pos_capture]
    ELSE IF ~cf_tstrej(kind, draw)
    THEN [s EXCEPT !.pos = r.pos, !.pos_capture = r.pos_capture,
                   !.move = pt]
    ELSE The({cf_tested(s, pt, r, f) :
                 f \in {fix_atari(r.pos, pt, SINGLEPT_OK, TWOLIBS_TEST, 1,
                                  r.pos_capture, DsRoom)}})

\* choose_from, lines 1513-1536: FORALL_IN_SLIST(moves, pt) from moves[k]
\* on, left by the break once a move is found.
cf_next(s, moves, kind, draws, k) ==
    IF s.move # PASS_MOVE THEN s
    ELSE The({cf_played(s, moves[k], kind, draws[k], r) :
                 r \in {play_move(s.pos, moves[k], s.pos_capture)}})

\* The moves lo..hi in that order (the range is halved to keep the
\* evaluation shallow on long lists).
RECURSIVE cf_range(_, _, _, _, _, _)
cf_range(st, moves, kind, draws, lo, hi) ==
    IF lo > hi THEN st
    ELSE IF lo = hi
    THEN The({cf_next(s, moves, kind, draws, lo) : s \in {st}})
    ELSE The({cf_range(s, moves, kind, draws, (lo + hi) \div 2 + 1, hi) :
                 s \in {cf_range(st, moves, kind, draws, lo,
                                 (lo + hi) \div 2)}})

cf_loop(st, moves, kind, draws, k) ==
    cf_range(st, moves, kind, draws, k, Len(moves))

\* Point choose_from(Position *pos, Slist moves, char *kind, int disp),
\* called when the global pos_capture is pc; draws[k] is what
\* random_int(10000) returns if moves[k] is legal.
choose_from(pos, moves, kind, pc, draws) ==
    cf_loop([pos |-> pos, pos_capture |-> pc, move |-> PASS_MOVE,
             rejected |-> << >>], moves, kind, draws, 1)


\* gen_playout_moves_capture, lines 1463-1466: the moves i.. of move2 are
\* inserted in m = [moves, sizes, ub]; k is the index in size2 of the size
\* pushed with the next move that is inserted.
RECURSIVE gpmc_merge(_, _, _, _, _)
gpmc_insert(m, move2, size2, i, k) ==
    IF SeqHas(m.moves, move2[i])
    THEN gpmc_merge(slist_insert(m, move2[i], 0, BOARDSIZE),
                    move2, size2, i + 1, k)
    ELSE gpmc_merge(slist_insert(m, move2[i], size2[k], BOARDSIZE),
                    move2, size2, i + 1, k + 1)

gpmc_merge(m, move2, size2, i, k) ==
    IF i > Len(move2) THEN m
    ELSE The({gpmc_insert(a, move2, size2, i, k) : a \in {m}})

\* gen_playout_moves_capture, lines 1461-1466: f is what fix_atari left for
\* one stone; st is [moves, sizes, ub, pos_capture].
gpmc_fixed(st, f) ==
    The({[moves |-> m.moves, sizes |-> m.sizes, ub |-> m.ub,
          pos_capture |-> f.pos_capture] :
            m \in {gpmc_merge([moves |-> st.moves, sizes |-> st.sizes,
                               ub |-> st.ub \/ f.ub],
                              f.moves, f.sizes, 1, 1)}})

\* gen_playout_moves_capture, lines 1460-1467: the point heuristic_set[i];
\* st is [moves, sizes, ub, pos_capture].
gpmc_point(pos, heuristic_set, twolib_edgeonly, st, i) ==
    IF pos.color[heuristic_set[i]] \in {"x", "X"}
    THEN The({gpmc_fixed(st, f) :
                 f \in {fix_atari(pos, heuristic_set[i], SINGLEPT_NOK,
                                  TWOLIBS_TEST, twolib_edgeonly,
                                  st.pos_capture, FixRoom)}})
    ELSE st

\* The points heuristic_set[lo..hi] in that order (the range is halved to
\* keep the evaluation shallow on long lists).
RECURSIVE gpmc_range(_, _, _, _, _, _)
gpmc_range(pos, heuristic_set, twolib_edgeonly, st, lo, hi) ==
    IF lo > hi THEN st
    ELSE IF lo = hi
    THEN The({gpmc_point(pos, heuristic_set, twolib_edgeonly, s, lo) :
                 s \in {st}})
    ELSE The({gpmc_range(pos, heuristic_set, twolib_edgeonly, s,
                         (lo + hi) \div 2 + 1, hi) :
                 s \in {gpmc_range(pos, heuristic_set, twolib_edgeonly, st,
                                   lo, (lo + hi) \div 2)}})

\* gen_playout_moves_capture, lines 1459-1467: FORALL_IN_SLIST(heuristic_set,
\* pt) from the point i on.
gpmc_loop(pos, heuristic_set, twolib_edgeonly, st, i) ==
    gpmc_range(pos, heuristic_set, twolib_edgeonly, st, i,
               Len(heuristic_set))

\* int gen_playout_moves_capture(pos, heuristic_set, prob, expensive_ok,
\* moves, sizes), called when the global pos_capture is pc.
gen_playout_moves_capture(pos, heuristic_set, expensive_ok, pc) ==
    gpmc_loop(pos, heuristic_set, IF expensive_ok # 0 THEN 0 ELSE 1,
              [moves |-> << >>, sizes |-> << >>, ub |-> FALSE,
               pos_capture |-> pc], 1)

\* int gen_playout_moves_pat3(pos, heuristic_set, prob, moves): r is what
\* random_int(1000) returned and prob the whole part of prob*1000.0.
gen_playout_moves_pat3(pos, heuristic_set, prob, r) ==
    IF r <= prob
    THEN SelectSeq(heuristic_set,
                   LAMBDA pt : pos.color[pt] = "." /\ pat3_match(pos, pt))
    ELSE << >>

\* PROB_HEURISTIC_PAT3 is 0.95, as a float a little less: the whole part of
\* prob*1000.0 in gen_playout_moves_pat3.
PROB_HEURISTIC_PAT3 == 949

\* make_list_neighbors(pos, pt, points) before slist_shuffle.
mln_points(pos, pt) ==
    IF pt = PASS_MOVE THEN << >>
    ELSE << pt >> \o SelectSeq([k \in 1..8 |-> pt + delta[k]],
                               LAMBDA n : pos.color[n] # " ")

\* SWAP(T, l[_k], l[_tmp]); l[0] of the C array is l[1] here.
shuffle_swap(l, k, tmp) ==
    [l EXCEPT ![k + 1] = l[tmp + 1], ![tmp + 1] = l[k + 1]]

\* What random_int(_k), a number of 0.._k-1, returns in SHUFFLE under the
\* draw shuffle: the lowest number or the highest.
shuffle_draw(shuffle, k) == IF shuffle = "high" THEN k - 1 ELSE 0

\* SHUFFLE, the iterations _k, _k-1, ... 1.
RECURSIVE shuffle_loop(_, _, _)
shuffle_loop(l, k, shuffle) ==
    IF k <= 0 THEN l
    ELSE shuffle_loop(shuffle_swap(l, k, shuffle_draw(shuffle, k)), k - 1,
                      shuffle)

\* SHUFFLE(T, l, n)
SHUFFLE(l, n, shuffle) == shuffle_loop(l, n - 1, shuffle)

\* slist_shuffle(l)
slist_shuffle(l, shuffle) == SHUFFLE(l, Len(l), shuffle)

\* void make_list_neighbors(Position *pos, Point pt, Slist points)
make_list_neighbors(pos, pt, shuffle) ==
    slist_shuffle(mln_points(pos, pt), shuffle)

\* make_list_last_moves_neighbors, lines 1225-1226: the points of
\* last2_neighbors are inserted in points (they differ from each other).
mllmn_insert(points, last2_neighbors) ==
    points \o SelectSeq(last2_neighbors, LAMBDA n : ~SeqHas(points, n))

\* void make_list_last_moves_neighbors(Position *pos, Slist points)
make_list_last_moves_neighbors(pos, shuffle) ==
    mllmn_insert(make_list_neighbors(pos, pos.last, shuffle),
                 make_list_neighbors(pos, pos.last2, shuffle))


\* main, lines 2188-2190: allpoints lists the points of the empty board, in
\* the order of FORALL_POINTS.
allpoints ==
    SelectSeq([k \in 1..BOARDSIZE |-> k - 1],
              LAMBDA i : i >= BOARD_IMIN /\ i < BOARD_IMAX
                         /\ EmptyColor[i] = ".")

MAX_GAME_LEN == N * N * 3

\* mcplayout that counts a pass without calling pass_move.
mc_found_nopass(s, c) ==
    IF c.move = PASS_MOVE
    THEN [pos |-> c.pos, pos_capture |-> c.pos_capture,
          passes |-> s.passes + 1, amaf_map |-> s.amaf_map,
          rejected |-> c.rejected, move |-> PASS_MOVE]
    ELSE [pos |-> c.pos, pos_capture |-> c.pos_capture, passes |-> 0,
          amaf_map |->
              IF s.amaf_map[c.move] = 0
              THEN [s.amaf_map EXCEPT
                       ![c.move] = IF (c.pos.n - 1) % 2 = 0 THEN 1 ELSE -1]
              ELSE s.amaf_map,
          rejected |-> c.rejected, move |-> c.move]

\* mcplayout, lines 1573-1582: the move of choose_from (or the pass) is
\* recorded.  s is [pos, pos_capture, passes, amaf_map, rejected]; c is what
\* the last choose_from left.
mc_found(s, c) ==
    IF c.move = PASS_MOVE
    THEN [pos |-> pass_move(c.pos), pos_capture |-> c.pos_capture,
          passes |-> s.passes + 1, amaf_map |-> s.amaf_map,
          rejected |-> c.rejected, move |-> PASS_MOVE]
    ELSE [pos |-> c.pos, pos_capture |-> c.pos_capture, passes |-> 0,
          amaf_map |->
              IF s.amaf_map[c.move] = 0
              THEN [s.amaf_map EXCEPT
                       ![c.move] = IF (c.pos.n - 1) % 2 = 0 THEN 1 ELSE -1]
              ELSE s.amaf_map,
          rejected |-> c.rejected, move |-> c.move]

\* choose_from on the list moves after the choose_from calls of the same
\* iteration have left c; r is what every random_int(10000) returns.
mc_chosen(c, moves, kind, r) ==
    The({[d EXCEPT !.rejected = c.rejected \o d.rejected] :
            d \in {choose_from(c.pos, moves, kind, c.pos_capture,
                               [k \in 1..Len(moves) |-> r])}})

mc_choose(c, moves, kind, r) ==
    The({mc_chosen(c, m, kind, r) : m \in {moves}})

\* mcplayout, lines 1570-1571: the random moves.
mc_random(s, c, draw) ==
    The({mc_found(s, d) :
            d \in {mc_choose(c, gen_playout_moves_random(
                                    c.pos, BOARD_IMIN - 1 + draw.i0),
                             "random", draw.r)}})

\* mcplayout, lines 1565-1568: moves is what gen_playout_moves_pat3 gave.
mc_pat3_moves(s, c, draw, moves) ==
    IF Len(moves) > 0
    THEN The({IF d.move # PASS_MOVE THEN mc_found(s, d)
              ELSE mc_random(s, d, draw) :
                 d \in {mc_choose(c, moves, "pat3", draw.r)}})
    ELSE mc_random(s, c, draw)

\* mcplayout, lines 1564-1568: the 3x3 pattern suggestions.
mc_pat3(s, c, points, draw) ==
    The({mc_pat3_moves(s, c, draw, moves) :
            moves \in {gen_playout_moves_pat3(c.pos, points,
                                              PROB_HEURISTIC_PAT3,
                                              draw.r3)}})

\* mcplayout, lines 1559-1562: g is what gen_playout_moves_capture gave.
mc_capture(s, c, points, draw, g) ==
    IF Len(g.moves) > 0
    THEN The({IF d.move # PASS_MOVE THEN mc_found(s, d)
              ELSE mc_pat3(s, d, points, draw) :
                 d \in {mc_choose(c, g.moves, "capture", draw.r)}})
    ELSE mc_pat3(s, c, points, draw)

\* mcplayout, lines 1556-1562: points is last_moves_neighbors.
mc_neighbors(s, points, draw) ==
    The({mc_capture(s, [pos |-> s.pos, pos_capture |-> g.pos_capture,
                        move |-> PASS_MOVE, rejected |-> << >>],
                    points, draw, g) :
            g \in {gen_playout_moves_capture(s.pos, points, 0,
                                             s.pos_capture)}})

\* mcplayout, lines 1551-1582: one iteration of the loop on s = [pos,
\* pos_capture, passes, amaf_map, ...].  draw holds what the random
\* generator gives in the iteration: the order shuffle of the neighbours,
\* r for every random_int(10000), r3 for random_int(1000) and i0 for
\* random_int(N*W).
mc_iteration(s, draw) ==
    The({mc_neighbors(s, points, draw) :
            points \in {make_list_last_moves_neighbors(s.pos,
                                                       draw.shuffle)}})

\* mcplayout, line 1550: while (passes < 2 && pos->n < MAX_GAME_LEN)
mc_running(s) == s.passes < 2 /\ s.pos.n < MAX_GAME_LEN


\* ------------------------------------------------------------ tree nodes
\* TreeNode* new_tree_node(Position *pos): calloc sets v, w, av, aw and
\* nchildren to 0 and children to NULL, which is kept as room = 0 (the
\* children array of an expanded node has room for one pointer or more).
\* last and last2 are those of pos.
new_tree_node(p) ==
    [pos |-> p, last |-> p.last, last2 |-> p.last2, v |-> 0, w |-> 0,
     pv |-> PRIOR_EVEN, pw |-> PRIOR_EVEN \div 2, av |-> 0, aw |-> 0,
     children |-> << >>, nchildren |-> 0, room |-> 0]

cfg_neighbor_once(pos, st, pt, n) ==
    IF pos.color[n] = " " THEN st
    ELSE IF 0 <= st.cfg_map[n] THEN st
    ELSE LET cfg_after == IF pos.color[n] # "." /\ pos.color[n] = pos.color[pt]
                          THEN st.cfg_map[pt] ELSE st.cfg_map[pt] + 1
         IN  [st EXCEPT !.cfg_map[n] = cfg_after, !.fringe = Append(@, n)]

\* compute_cfg_distances, lines 1405-1417: the neighbour n of pt; st is
\* [cfg_map, fringe, tail], fringe[head - 1] being the last item of fringe.
cfg_neighbor(pos, st, pt, n) ==
    IF pos.color[n] = " " THEN st
    ELSE IF 0 <= st.cfg_map[n] /\ st.cfg_map[n] <= st.cfg_map[pt] THEN st
    ELSE LET cfg_before == st.cfg_map[n]
             cfg_after  == IF pos.color[n] # "." /\ pos.color[n] = pos.color[pt]
                           THEN st.cfg_map[pt] ELSE st.cfg_map[pt] + 1
         IN  [st EXCEPT !.cfg_map[n] = cfg_after,
                        !.fringe = IF cfg_before < 0 \/ cfg_before > cfg_after
                                   THEN Append(@, n) ELSE @]

\* compute_cfg_distances, line 1404: FORALL_NEIGHBORS(pos, pt, k, n) from the
\* neighbour k on.
RECURSIVE cfg_neighbors(_, _, _, _)
cfg_neighbors(pos, st, pt, k) ==
    IF k > 4 THEN st
    ELSE The({cfg_neighbors(pos, s, pt, k + 1) :
                 s \in {cfg_neighbor(pos, st, pt, pt + delta[k])}})

\* compute_cfg_distances, lines 1403-1418: pt = fringe[tail++] and its four
\* neighbours.
cfg_pop(pos, st) ==
    The({[s EXCEPT !.tail = @ + 1] :
            s \in {cfg_neighbors(pos, st, st.fringe[st.tail + 1], 1)}})

\* The fringe of compute_cfg_distances has room for 30*BOARDSIZE points,
\* fewer than 2^CfgRounds.
CfgRounds == 13

\* compute_cfg_distances, line 1402: while (head > tail), at most 2^k times
\* (the count is halved to keep the evaluation shallow).
RECURSIVE cfg_while(_, _, _)
cfg_while(pos, st, k) ==
    IF Len(st.fringe) <= st.tail THEN st
    ELSE IF k = 0 THEN cfg_pop(pos, st)
    ELSE The({cfg_while(pos, s, k - 1) : s \in {cfg_while(pos, st, k - 1)}})

\* compute_cfg_distances, lines 1395-1418: cfg_map, fringe and tail when the
\* loop is left; head is Len(fringe).
cfg_run(pos, pt) ==
    The({cfg_while(pos, st, CfgRounds) :
            st \in {[cfg_map |-> [i \in Index |-> IF i = pt THEN 0 ELSE -1],
                     fringe |-> << pt >>, tail |-> 0]}})

\* void compute_cfg_distances(Position *pos, Point pt, char cfg_map[]).
compute_cfg_distances(pos, pt) == cfg_run(pos, pt).cfg_map

\* int empty_area(Position *pos, Point pt, int dist), lines 1438-1443 from
\* the neighbour k on.
RECURSIVE empty_area_from(_, _, _, _)
empty_area_from(pos, pt, dist, k) ==
    IF k > 4 THEN 1
    ELSE IF pos.color[pt + delta[k]] \in {"x", "X"} THEN 0
    ELSE IF /\ pos.color[pt + delta[k]] = "."
            /\ dist > 1
            /\ empty_area_from(pos, pt + delta[k], dist - 1, 1) = 0
    THEN 0
    ELSE empty_area_from(pos, pt, dist, k + 1)

empty_area(pos, pt, dist) == empty_area_from(pos, pt, dist, 1)

PRIOR_CFG == << 24, 22, 8 >>
LEN_PRIOR_CFG == Len(PRIOR_CFG)

\* expand, lines 1613-1621: results[k] is what play_move left for moves[k];
\* a child is made for every legal move, in that order.
ex_nodes(legal) == [k \in 1..Len(legal) |-> new_tree_node(legal[k].pos)]

ex_children(results) ==
    ex_nodes(SelectSeq(results, LAMBDA r : r.ret = ""))

\* node = childset[pt]; node->pv += dv; node->pw += dw.  childset[pt] is
\* set for the points that got a child, and is an uninitialised pointer for
\* the others: the write then goes astray and the children stay as they
\* are.
ex_add(nodes, pt, dv, dw) ==
    IF \E k \in 1..Len(nodes) : nodes[k].last = pt
    THEN [nodes EXCEPT ![CHOOSE k \in 1..Len(nodes) : nodes[k].last = pt] =
            [@ EXCEPT !.pv = @ + dv, !.pw = @ + dw]]
    ELSE nodes

\* expand, lines 1634-1641.
ex_capture_prior(size) ==
    IF size = 1 THEN PRIOR_CAPTURE_ONE ELSE PRIOR_CAPTURE_MANY

\* expand, lines 1626-1642: the moves i.. of the capture suggestions g, k
\* being the index into sizes; a move play_move refuses is left with
\* continue, before k++.  sizes[k] is read in the array sizes[BOARDSIZE].
RECURSIVE ex_capture_loop(_, _, _, _, _, _)
ex_capture_loop(p, pc, g, nodes, i, k) ==
    IF i > Len(g.moves) \/ Len(nodes) < 0 THEN nodes
    ELSE IF play_move(p, g.moves[i], pc).ret # ""
    THEN ex_capture_loop(p, pc, g, nodes, i + 1, k)
    ELSE ex_capture_loop(p, pc, g,
                         ex_add(nodes, g.moves[i],
                                ex_capture_prior(g.sizes[k]),
                                ex_capture_prior(g.sizes[k])),
                         i + 1, k + 1)

\* expand, lines 1625-1642.
ex_capture(p, pc, nodes) ==
    The({ex_capture_loop(p, pc, g, nodes, 1, 1) :
            g \in {gen_playout_moves_capture(p, allpoints, 1, pc)}})

\* expand, lines 1644-1652: the moves i.. of the 3x3 suggestions.
RECURSIVE ex_pat3_loop(_, _, _, _, _)
ex_pat3_loop(p, pc, moves, nodes, i) ==
    IF i > Len(moves) \/ Len(nodes) < 0 THEN nodes
    ELSE IF play_move(p, moves[i], pc).ret # ""
    THEN ex_pat3_loop(p, pc, moves, nodes, i + 1)
    ELSE ex_pat3_loop(p, pc, moves,
                      ex_add(nodes, moves[i], PRIOR_PAT3, PRIOR_PAT3),
                      i + 1)

\* expand, lines 1643-1652: prob is 1, so that random_int(1000) <= prob*1000
\* whatever is drawn.
ex_pat3(p, pc, nodes) ==
    The({ex_pat3_loop(p, pc, moves, nodes, 1) :
            moves \in {gen_playout_moves_pat3(p, allpoints, 1000, 0)}})

\* expand, lines 1660-1663; cfg_map is not computed after a pass, and
\* cfg_map[pt]-1 < LEN_PRIOR_CFG is an unsigned comparison, false for the
\* -1 of a point that was not reached.
ex_cfg_prior(p, cfg_map, pt) ==
    IF p.last # PASS_MOVE /\ cfg_map[pt] >= 1 /\ cfg_map[pt] <= LEN_PRIOR_CFG
    THEN PRIOR_CFG[cfg_map[pt]] ELSE 0

\* expand, lines 1665-1677: what is added to pv and to pw.
ex_empty_area_prior(p, pt) ==
    IF line_height(pt) <= 2 /\ empty_area(p, pt, 3) # 0
    THEN [pv |-> PRIOR_EMPTYAREA,
          pw |-> IF line_height(pt) = 2 THEN PRIOR_EMPTYAREA ELSE 0]
    ELSE [pv |-> 0, pw |-> 0]

\* expand, lines 1679-1684: fix_atari on the stone just played, in the
\* position of the child.
ex_selfatari_prior(node, pt, pc) ==
    IF Len(fix_atari(node.pos, pt, SINGLEPT_OK, TWOLIBS_TEST, 0, pc,
                     FixRoom).moves) > 0
    THEN PRIOR_SELFATARI ELSE 0

\* expand, lines 1686-1691: sqrt(patternprob) * PRIOR_LARGEPATTERN as far as
\* the int pv takes it, patternprob being given in thousandths.
ex_large_prior(prob) ==
    IF prob > 0
    THEN CHOOSE r \in 0..PRIOR_LARGEPATTERN :
            r * r <= 10 * prob /\ 10 * prob < (r + 1) * (r + 1)
    ELSE 0

\* expand, lines 1656-1692: the child node on the move pt, d being the
\* dictionary of the large patterns.
ex_second_node(p, pc, d, cfg_map, node, pt) ==
    The({[node EXCEPT
            !.pv = @ + ex_cfg_prior(p, cfg_map, pt) + e.pv + s + l,
            !.pw = @ + ex_cfg_prior(p, cfg_map, pt) + e.pw + l] :
         e \in {ex_empty_area_prior(p, pt)},
         s \in {ex_selfatari_prior(node, pt, pc)},
         l \in {ex_large_prior(
                  large_pattern_probability(d, p.color, pt, 0).prob)}})

\* expand, lines 1607-1608 and 1654-1692: the second pass over the children.
ex_second(p, pc, d, nodes) ==
    The({[k \in 1..Len(nodes) |->
            ex_second_node(p, pc, d, cfg_map, nodes[k], nodes[k].last)] :
         cfg_map \in {IF p.last # PASS_MOVE
                      THEN compute_cfg_distances(p, p.last)
                      ELSE [i \in Index |-> -1]}})

\* expand, lines 1624-1692, with no large pattern loaded.
ex_priors(p, pc, nodes) ==
    The({ex_second(p, pc, NoPat.dict, n2) :
         n2 \in {The({ex_pat3(p, pc, n1) :
         n1 \in {ex_capture(p, pc, nodes)}})}})

\* expand, lines 1612 and 1694-1700: children is an array of room pointers
\* set to NULL by calloc; with no legal move a single PASS child is put in
\* children[0].
ex_tree(p, nodes, room) ==
    IF Len(nodes) = 0
    THEN [pos |-> p, children |-> << new_tree_node(pass_move(p)) >>,
          nchildren |-> 1, room |-> room, move |-> 0]
    ELSE [pos |-> p, children |-> nodes, nchildren |-> Len(nodes),
          room |-> room, move |-> 0]

ex_moves(p, pc, moves) ==
    ex_tree(p,
            ex_children([k \in 1..Len(moves) |-> play_move(p, moves[k], pc)]),
            Len(moves) + 1)

\* expand without lines 1624-1692: the children array, the priors of the
\* children being left as new_tree_node sets them.
expand_first_pass(p, pc) ==
    ex_moves(p, pc, gen_playout_moves_random(p, BOARD_IMIN - 1))

\* void expand(TreeNode *tree) on a node of Position p, with no large
\* pattern loaded.
ex_all(p, pc, moves) ==
    The({ex_tree(p, ex_priors(p, pc, nodes), Len(moves) + 1) :
         nodes \in {ex_children([k \in 1..Len(moves) |->
                                   play_move(p, moves[k], pc)])}})

expand(p, pc) ==
    The({ex_all(p, pc, moves) :
            moves \in {gen_playout_moves_random(p, BOARD_IMIN - 1)}})

\* The NULL that ends the children array lies inside the array.
Terminated(t) == t.nchildren < t.room

\* The counts v and w the simulations of tree_search leave in the children
\* of the root: sb in child b, so in the others.
ts_simulated(t, b, sb, so) ==
    [t EXCEPT !.children =
        [k \in 1..Len(@) |->
            [@[k] EXCEPT !.v = IF k = b THEN sb[1] ELSE so[1],
                         !.w = IF k = b THEN sb[2] ELSE so[2]]]]

\* TreeNode* best_move(tree, NULL): the first of the most visited children.
best_move(t) ==
    t.children[CHOOSE k \in 1..Len(t.children) :
                  /\ \A j \in 1..Len(t.children) :
                        t.children[j].v <= t.children[k].v
                  /\ \A j \in 1..(k - 1) :
                        t.children[j].v < t.children[k].v]

\* (double) w / (double) v < RESIGN_THRES, RESIGN_THRES being 0.2 (0/0 is
\* not a number and compares false).
below_resign_thres(w, v) == v > 0 /\ 5 * w < v

\* tree_search, lines 1869-1874.
ts_answer(best) ==
    IF best.last = PASS_MOVE /\ best.last2 = PASS_MOVE THEN PASS_MOVE
    ELSE IF below_resign_thres(best.w, best.v) THEN RESIGN_MOVE
    ELSE best.last

ts_result(t) == [t EXCEPT !.move = ts_answer(best_move(t))]

\* Point tree_search(tree, n, owner_map, disp) on a fresh root of Position
\* p, the n simulations leaving sb and so.
tree_search(p, pc, b, sb, so) ==
    ts_result(ts_simulated(expand_first_pass(p, pc), b, sb, so))

\* ------------------------------------------------------------ simulations
\* double score(Position *pos, int owner_map[]), in half points (komi is kept
\* in half points): the colour counted for pt.
score_color(p, pt) == IF p.color[pt] = "." THEN is_eyeish(p, pt) ELSE p.color[pt]

score(p) ==
    (IF p.n % 2 = 0 THEN 0 - p.komi ELSE p.komi)
    + 2 * Cardinality({pt \in OnBoard : score_color(p, pt) = "X"})
    - 2 * Cardinality({pt \in OnBoard : score_color(p, pt) = "x"})

\* mcplayout, lines 1550-1583: the loop, at most k iterations of it (the
\* count is halved to keep the evaluation shallow).  s is the state of
\* mc_iteration with the moves made so far, each with the colour that made
\* it (1 Black, -1 White), in played.
mc_step(s, draw) ==
    The({[s2 EXCEPT !.played =
             IF s2.move = PASS_MOVE THEN s.played
             ELSE Append(s.played,
                         << s2.move, IF s.pos.n % 2 = 0 THEN 1 ELSE -1 >>)] :
          s2 \in {[played |-> s.played] @@ mc_iteration(s, draw)}})

RECURSIVE mc_loop(_, _, _)
mc_loop(s, draw, k) ==
    IF ~mc_running(s) THEN s
    ELSE IF k <= 1 THEN mc_step(s, draw)
    ELSE The({mc_loop(s2, draw, k - k \div 2) :
                 s2 \in {mc_loop(s, draw, k \div 2)}})

\* mcplayout, lines 1584-1586.
mc_score(start_n, p) ==
    IF start_n % 2 # p.n % 2 THEN 0 - score(p) ELSE score(p)

\* double mcplayout(Position *pos, int amaf_map[], int owner_map[], int
\* disp) on a copy p of a position, the global pos_capture being pc.
mcplayout(p, amaf_map, pc, draw) ==
    The({[score |-> mc_score(p.n, s.pos), amaf_map |-> s.amaf_map,
          pos_capture |-> s.pos_capture, played |-> s.played] :
          s \in {mc_loop([pos |-> p, pos_capture |-> pc, passes |-> 0,
                          amaf_map |-> amaf_map, rejected |-> << >>,
                          move |-> PASS_MOVE, played |-> << >>],
                         draw, MAX_GAME_LEN)}})

\* The node of tree t at the end of path, a sequence of indices into the
\* children arrays, and t with that node replaced by nd.
RECURSIVE node_at(_, _)
node_at(t, path) ==
    IF path = << >> THEN t ELSE node_at(t.children[Head(path)], Tail(path))

RECURSIVE node_set(_, _, _)
node_set(t, path, nd) ==
    IF path = << >> THEN nd
    ELSE [t EXCEPT !.children[Head(path)] = node_set(@, Tail(path), nd)]

\* expand(node) on a node of the tree.
expand_node(nd, pc) ==
    The({[nd EXCEPT !.children = e.children, !.nchildren = e.nchildren,
                    !.room = e.room] : e \in {expand(nd.pos, pc)}})

\* double rave_urgency(TreeNode *node) is rave_num/rave_den: with v' = v +
\* pv, beta = av / (av + v' + v'*av/RAVE_EQUIV) and the urgency is
\* beta*aw/av + (1-beta)*(w+pw)/v', the expectation (w+pw)/v' when av = 0.
rave_num(nd) == RAVE_EQUIV * nd.aw + (RAVE_EQUIV + nd.av) * (nd.w + nd.pw)
rave_den(nd) == RAVE_EQUIV * nd.av + (RAVE_EQUIV + nd.av) * (nd.v + nd.pv)

\* a/b > c/d for a, c >= 0 and b, d > 0, by the quotients and then the
\* remainders (the products a*d and c*b do not fit 32 bits).
RECURSIVE frac_gt(_, _, _, _)
frac_gt(a, b, c, d) ==
    IF a \div b # c \div d THEN a \div b > c \div d
    ELSE IF a % b = 0 THEN FALSE
    ELSE IF c % d = 0 THEN TRUE
    ELSE frac_gt(d, c % d, b, a % b)

\* rave_urgency(a) > rave_urgency(b)
more_urgent(a, b) == frac_gt(rave_num(a), rave_den(a), rave_num(b), rave_den(b))

\* most_urgent, lines 1765-1774: the index of urgent after the children from
\* k on; 0 while umax is 0.
RECURSIVE mu_loop(_, _, _)
mu_loop(children, k, urgent) ==
    IF k > Len(children) THEN urgent
    ELSE mu_loop(children, k + 1,
                 IF urgent = 0
                 THEN (IF rave_num(children[k]) > 0 THEN k ELSE 0)
                 ELSE IF more_urgent(children[k], children[urgent]) THEN k
                 ELSE urgent)

\* TreeNode* most_urgent(TreeNode **children, int nchildren, int disp): the
\* children as SHUFFLE leaves them, and the index of the node returned
\* (children[0] as it was before the shuffle when no urgency is above 0).
most_urgent(children, nchildren, shuffle) ==
    The({[children |-> shuffled,
          urgent |-> The({IF u # 0 THEN u
                          ELSE CHOOSE k \in 1..Len(shuffled) :
                                   shuffled[k] = children[1] :
                          u \in {mu_loop(shuffled, 1, 0)}})] :
          shuffled \in {SHUFFLE(children, nchildren, shuffle)}})

td_amaf_flipped(amaf_map, move, n) ==
    IF move # PASS_MOVE /\ amaf_map[move] = 0
    THEN [amaf_map EXCEPT ![move] = IF n % 2 = 0 THEN -1 ELSE 1]
    ELSE amaf_map

\* tree_descend, lines 1795-1800.
td_amaf(amaf_map, move, n) ==
    IF move # PASS_MOVE /\ amaf_map[move] = 0
    THEN [amaf_map EXCEPT ![move] = IF n % 2 = 0 THEN 1 ELSE -1]
    ELSE amaf_map

td_expand_unvisited(node, pc) ==
    IF node.room = 0 THEN expand_node(node, pc) ELSE node

\* tree_descend, lines 1802-1803.
td_expand(node, pc) ==
    IF node.room = 0 /\ node.v >= EXPAND_VISITS THEN expand_node(node, pc)
    ELSE node

\* tree_descend, lines 1785-1804: one iteration of the loop.  d is [tree,
\* path, passes, amaf_map, expanded, ub]: path leads to nodes[last],
\* expanded lists the paths of the nodes expand was called on, and ub tells
\* that a children array without its NULL was walked.
td_chosen(d, nd, mu, pc) ==
    The({[tree |-> node_set(d.tree, d.path,
                            [nd EXCEPT !.children =
                                [mu.children EXCEPT ![mu.urgent] = node]]),
          path |-> Append(d.path, mu.urgent),
          passes |-> IF node.last = PASS_MOVE THEN d.passes + 1 ELSE 0,
          amaf_map |-> td_amaf(d.amaf_map, node.last, nd.pos.n),
          expanded |-> IF node.room # mu.children[mu.urgent].room
                       THEN Append(d.expanded, Append(d.path, mu.urgent))
                       ELSE d.expanded,
          ub |-> d.ub \/ nd.nchildren >= nd.room] :
          node \in {td_expand(mu.children[mu.urgent], pc)}})

td_step(d, pc, shuffle) ==
    The({td_chosen(d, nd, most_urgent(nd.children, nd.nchildren, shuffle),
                   pc) : nd \in {node_at(d.tree, d.path)}})

\* tree_descend, line 1785: while (nodes[last]->children != NULL && passes
\* < 2)
td_running(d) == node_at(d.tree, d.path).room # 0 /\ d.passes < 2

RECURSIVE td_loop(_, _, _)
td_loop(d, pc, shuffle) ==
    IF ~td_running(d) THEN d
    ELSE The({td_loop(d2, pc, shuffle) : d2 \in {td_step(d, pc, shuffle)}})

\* int tree_descend(TreeNode *tree, int amaf_map[], int disp, TreeNode
\* **nodes)
tree_descend(t, amaf_map, pc, shuffle) ==
    td_loop([tree |-> t, path |-> << >>, passes |-> 0,
             amaf_map |-> amaf_map, expanded |-> << >>, ub |-> FALSE],
            pc, shuffle)

tu_child_swapped(child, p, amaf_map, s) ==
    IF child.last = PASS_MOVE THEN child
    ELSE IF amaf_map[child.last] = (IF p.n % 2 = 0 THEN 1 ELSE -1)
    THEN [child EXCEPT !.aw = @ + 1, !.av = @ + (IF s > 0 THEN 1 ELSE 0)]
    ELSE child

\* tree_update, lines 1822-1834: the AMAF counts of the child of a node of
\* Position p.
tu_child(child, p, amaf_map, s) ==
    IF child.last = PASS_MOVE THEN child
    ELSE IF amaf_map[child.last] = (IF p.n % 2 = 0 THEN 1 ELSE -1)
    THEN [child EXCEPT !.aw = @ + (IF s > 0 THEN 1 ELSE 0), !.av = @ + 1]
    ELSE child

\* tree_update, lines 1813-1835: the node n = nodes[k].
tu_node_nowin(nd, amaf_map, s) ==
    [nd EXCEPT !.v = @ + 1,
               !.children = [j \in 1..Len(@) |->
                                tu_child(@[j], nd.pos, amaf_map, s)]]

tu_node(nd, amaf_map, s) ==
    [nd EXCEPT !.v = @ + 1,
               !.w = @ + (IF s < 0 THEN 1 ELSE 0),
               !.children = [j \in 1..Len(@) |->
                                tu_child(@[j], nd.pos, amaf_map, s)]]

\* tree_update, line 1811: for (k=last ; k>=0 ; k--), score being s at
\* nodes[k].
RECURSIVE tu_loop(_, _, _, _, _)
tu_loop(t, path, k, amaf_map, s) ==
    IF k < 0 THEN t
    ELSE The({tu_loop(t2, path, k - 1, amaf_map, 0 - s) :
                 t2 \in {node_set(t, SubSeq(path, 1, k),
                                  tu_node(node_at(t, SubSeq(path, 1, k)),
                                          amaf_map, s))}})

\* void tree_update(TreeNode **nodes, int last, int amaf_map[], double
\* score, int disp): nodes is the path from the root t.
tree_update(t, path, amaf_map, s) ==
    tu_loop(t, path, Len(path), amaf_map, s)

\* A node of the path has a children array without its NULL.
tu_unterminated(t, path) ==
    \E k \in 0..Len(path) :
        \E nd \in {node_at(t, SubSeq(path, 1, k))} :
            nd.room # 0 /\ nd.nchildren >= nd.room

\* tree_search, lines 1852-1858: one iteration of the loop on the tree t.
\* The result holds the tree, the path of tree_descend, amaf_map as
\* tree_descend and as mcplayout left it, the score, the moves of the
\* playout and ub.
ts_updated(d, m) ==
    [tree |-> tree_update(d.tree, d.path, m.amaf_map, m.score),
     descended |-> d.tree, path |-> d.path, passes |-> d.passes,
     expanded |-> d.expanded, amaf_descent |-> d.amaf_map,
     amaf_map |-> m.amaf_map, score |-> m.score, played |-> m.played,
     pos_capture |-> m.pos_capture,
     ub |-> d.ub \/ tu_unterminated(d.tree, d.path)]

ts_descended(d, pc, draw) ==
    The({ts_updated(d, m) :
            m \in {mcplayout(node_at(d.tree, d.path).pos, d.amaf_map, pc,
                             draw)}})

ts_iteration(t, pc, draw) ==
    The({ts_descended(d, pc, draw) :
            d \in {tree_descend(t, [i \in Index |-> 0], pc, draw.shuffle)}})

\* tree_search, line 1849: the root is expanded when it has no children.
ts_root(p, pc) == expand_node(new_tree_node(p), pc)

\* ------------------------------------------------------------ the game
VARIABLES
    pos,          \* the Position of the game
    pos_capture,  \* the global Point pos_capture
    ret,          \* the string returned by the latest call
    op,           \* the latest call: "init", "play", "pass", "undo" or
                  \* "fix_atari"
    arg,          \* the point given to the latest play_move or fix_atari
    pre,          \* pos and pos_capture as they were before the latest
                  \* play_move / pass_move
    removed,      \* stones taken off the board by captures so far
    undos,        \* undo_move calls so far
    fa,           \* the arguments and the result of the latest fix_atari
    tree,         \* the root node and the result of the latest expand or
                  \* tree_search
    io,           \* the strings read and written: the latest coordinate
                  \* parsed and printed, the latest GTP command and answer
    pat,          \* the pattern tables and the latest pattern query
    mc            \* the latest call of a routine of the playouts or of the
                  \* tree search: its arguments and what it left

vars ==
    << pos, pos_capture, ret, op, arg, pre, removed, undos, fa, tree, io,
       pat, mc >>

\* The variables the board routines leave alone.
aux == << io, pat, mc >>

\* No routine of the playouts or of the search has been called.
NoCall == [call |-> ""]

\* The points on which the explored games are played: the lower left corner
\* A1 B1 C1 / A2 B2 of the 13x13 board.
Region == {Pt(1, 1), Pt(2, 1), Pt(3, 1), Pt(1, 2), Pt(2, 2)}

Stones(p) == {i \in OnBoard : p.color[i] \in {"X", "x"}}

\* The game variables when a game starts from st = [pos, pos_capture].
GameFrom(st) ==
    /\ pos = st.pos
    /\ pos_capture = st.pos_capture
    /\ ret = ""
    /\ op = "init"
    /\ arg = 0
    /\ pre = st
    /\ removed = 0
    /\ undos = 0
    /\ fa = NoFix
    /\ tree = NoTree

\* A game starts from st = [pos, pos_capture].
StartFrom(st) == GameFrom(st) /\ io = NoIo /\ pat = NoPat /\ mc = NoCall

Init ==
    \E g \in {0, 1} :
        StartFrom([pos |-> empty_position(g), pos_capture |-> 0])

\* The variables after play_move(pos, pt) has left r.
PlayResult(pt, r) ==
    /\ pos' = r.pos
    /\ pos_capture' = r.pos_capture
    /\ ret' = r.ret
    /\ removed' = IF r.ret = ""
                  THEN removed + Cardinality(Stones(pos)) + 1
                               - Cardinality(Stones(r.pos))
                  ELSE removed
    /\ op' = "play"
    /\ arg' = pt
    /\ pre' = [pos |-> pos, pos_capture |-> pos_capture]
    /\ fa' = NoFix
    /\ tree' = NoTree
    /\ UNCHANGED << undos, aux >>

\* play_move(pos, pt) on an empty point, as every caller does, in a game of
\* at most limit plies.
PlayTo(pt, limit) ==
    /\ pos.n < limit
    /\ pos.color[pt] = "."
    /\ PlayResult(pt, play_move(pos, pt, pos_capture))

\* pass_move(pos)
PassTo(limit) ==
    /\ pos.n < limit
    /\ pos' = pass_move(pos)
    /\ ret' = ""
    /\ op' = "pass"
    /\ arg' = PASS_MOVE
    /\ pre' = [pos |-> pos, pos_capture |-> pos_capture]
    /\ fa' = NoFix
    /\ tree' = NoTree
    /\ UNCHANGED << pos_capture, removed, undos, aux >>

Play(pt) == PlayTo(pt, MaxPly)
Pass == PassTo(MaxPly)

Next ==
    \/ \E pt \in Region : Play(pt)
    \/ Pass

Spec == Init /\ [][Next]_vars


\* ------------------------------------------------------------ trial moves
\* undo_move(pos), called as choose_from does: right after a successful
\* play_move.
Undo ==
    /\ undos < MaxUndo
    /\ op = "play"
    /\ ret = ""
    /\ pos' = undo_move(pos, pos_capture)
    /\ op' = "undo"
    /\ undos' = undos + 1
    /\ UNCHANGED << pos_capture, ret, arg, pre, removed, fa, tree, aux >>

PlayTrial(pt) == PlayTo(pt, UndoPly)
PassTrial == PassTo(UndoPly)

NextUndo ==
    \/ \E pt \in Region : PlayTrial(pt)
    \/ PassTrial
    \/ Undo

SpecUndo == Init /\ [][NextUndo]_vars


\* ------------------------------------------------------------ long games
\* st = [pos, pos_capture] after play_move has left r.
Played(r) == [pos |-> r.pos, pos_capture |-> r.pos_capture]

\* The game in which Black plays every point of the board but those of e, in the order
\* of the indices, and White passes in between: st = [pos, pos_capture] after
\* the points lo..hi are played (the range is halved to keep the evaluation
\* shallow; n is never negative, the test of it makes st be evaluated first).
RECURSIVE Fill(_, _, _, _)
Fill(st, lo, hi, e) ==
    IF lo > hi \/ st.pos.n < 0 THEN st
    ELSE IF lo = hi
    THEN IF lo \notin OnBoard \/ lo \in e THEN st
         ELSE Played(play_move(IF st.pos.n > 0 THEN pass_move(st.pos)
                                               ELSE st.pos,
                               lo, st.pos_capture))
    ELSE Fill(Fill(st, lo, (lo + hi) \div 2, e),
              (lo + hi) \div 2 + 1, hi, e)

\* Plies of that game: N*N - 1 moves of Black and the passes between them.
FillPly == 2 * (N * N - 1) - 1

InitCap ==
    \E g \in {0, 1}, e \in Region :
        StartFrom(Fill([pos |-> empty_position(g), pos_capture |-> 0],
                       BOARD_IMIN, BOARD_IMAX - 1, {e}))

PlayCap(pt) == PlayTo(pt, FillPly + CapPly)
PassCap == PassTo(FillPly + CapPly)

NextCap ==
    \/ \E pt \in Region : PlayCap(pt)
    \/ PassCap

\* The games that go on from a board filled by Black but for one point.
SpecCap == InitCap /\ [][NextCap]_vars


\* ------------------------------------------------------------ atari calls
\* The stones with which Black encloses the 3x3 corner A1..C3: D1 D2 D3 and
\* A4 B4 C4.
WallPoints == << Pt(4, 1), Pt(4, 2), Pt(4, 3), Pt(1, 4), Pt(2, 4), Pt(3, 4) >>

\* Plies of the game that builds the wall: Black's moves and the passes of
\* White between them.
WallPly == 2 * Len(WallPoints) - 1

\* That game: st = [pos, pos_capture] after the points i.. of WallPoints.
RECURSIVE Wall(_, _)
Wall(st, i) ==
    IF i > Len(WallPoints) THEN st
    ELSE Wall(Played(play_move(IF st.pos.n > 0 THEN pass_move(st.pos)
                                               ELSE st.pos,
                               WallPoints[i], st.pos_capture)),
              i + 1)

\* The points played inside the wall: A1 B1 / A2 B2.
Corner == {Pt(1, 1), Pt(2, 1), Pt(1, 2), Pt(2, 2)}

\* The points inside the wall.
Inside == {Pt(x, y) : x \in 1..3, y \in 1..3}

\* Games played inside the wall before the exploration starts (White moves
\* first, PASS_MOVE is a pass): none; White A1, Black B1, White C1, Black
\* passes, White B3; White A1, Black A2, White passes, Black B2, White passes,
\* Black C1.
Setups ==
    { << >>,
      << Pt(1, 1), Pt(2, 1), Pt(3, 1), PASS_MOVE, Pt(2, 3) >>,
      << Pt(1, 1), Pt(1, 2), PASS_MOVE, Pt(2, 2), PASS_MOVE, Pt(3, 1) >> }

\* st = [pos, pos_capture] after the moves i.. of game.
RECURSIVE Setup(_, _, _)
Setup(st, game, i) ==
    IF i > Len(game) THEN st
    ELSE Setup(IF game[i] = PASS_MOVE
               THEN [st EXCEPT !.pos = pass_move(st.pos)]
               ELSE Played(play_move(st.pos, game[i], st.pos_capture)),
               game, i + 1)

\* White C1, Black C2, White A3, Black A1, B2, A2 and B3 with passes of
\* White between them: B3 captures the white stone A3 (the global
\* pos_capture is A3), and the white stone C1 is left with the single
\* liberty B1, where a white move is suicide.
CaptureGame ==
    << Pt(3, 1), Pt(3, 2), Pt(1, 3), Pt(1, 1), PASS_MOVE, Pt(2, 2), PASS_MOVE,
       Pt(1, 2), PASS_MOVE, Pt(2, 3) >>

FixSetups == Setups \cup {CaptureGame}

InitFix ==
    \E g \in {0, 1}, game \in FixSetups :
        StartFrom(Setup(Wall([pos |-> empty_position(g), pos_capture |-> 0],
                             1),
                        game, 1))

\* The variables after fix_atari has left f.
FixResult(pt, singlept_ok, twolib_test, twolib_edgeonly, f) ==
    /\ fa' = [singlept_ok |-> singlept_ok, twolib_test |-> twolib_test,
              twolib_edgeonly |-> twolib_edgeonly,
              ret |-> f.ret, moves |-> f.moves, sizes |-> f.sizes,
              ub |-> f.ub]
    /\ pos_capture' = f.pos_capture
    /\ op' = "fix_atari"
    /\ arg' = pt
    /\ UNCHANGED << pos, ret, pre, removed, undos, tree, aux >>

\* fix_atari(pos, pt, singlept_ok, twolib_test, twolib_edgeonly, moves,
\* sizes) on a stone of the position, as its callers do.
FixAtari(pt, singlept_ok, twolib_test, twolib_edgeonly) ==
    /\ pos.color[pt] \in {"X", "x"}
    /\ FixResult(pt, singlept_ok, twolib_test, twolib_edgeonly,
                 fix_atari(pos, pt, singlept_ok, twolib_test,
                           twolib_edgeonly, pos_capture, FixRoom))

PlayFix(pt) == PlayTo(pt, WallPly + FixPly)
PassFix == PassTo(WallPly + FixPly)

NextFix ==
    \/ \E pt \in Corner : PlayFix(pt)
    \/ PassFix
    \/ \E pt \in Inside, s \in {SINGLEPT_NOK, SINGLEPT_OK},
          t \in {TWOLIBS_TEST_NO, TWOLIBS_TEST}, e \in {0, 1} :
          FixAtari(pt, s, t, e)

\* The games in the enclosed corner, with fix_atari called on their stones.
SpecFix == InitFix /\ [][NextFix]_vars

\* ------------------------------------------------------------ block calls
\* The values of nlibs: the callers pass 1, 2 and 3.
NLibs == 0..4

\* Games played inside the wall before the exploration starts: those of
\* Setups and White A1, Black A2, White B1, Black C1, which leaves the white
\* block A1 B1 with the single liberty B2.
BlockSetups ==
    Setups \cup {<< Pt(1, 1), Pt(1, 2), Pt(2, 1), Pt(3, 1) >>}

InitBlock ==
    \E g \in {0, 1}, game \in BlockSetups :
        StartFrom(Setup(Wall([pos |-> empty_position(g), pos_capture |-> 0],
                             1),
                        game, 1))

\* compute_block(pos, pt, stones, libs, nlibs) on a stone of the position.
ComputeBlock(pt, nlibs) ==
    /\ pos.color[pt] \in {"X", "x"}
    /\ LET b == compute_block(pos, pt, nlibs)
       IN  mc' = [call |-> "compute_block", pt |-> pt, nlibs |-> nlibs,
                  stones |-> b.stones, libs |-> b.libs]
    /\ op' = "compute_block"
    /\ arg' = pt
    /\ UNCHANGED << pos, pos_capture, ret, pre, removed, undos, fa, tree,
                    io, pat >>

PlayBlock(pt) == PlayTo(pt, WallPly + BlockPly)
PassBlock == PassTo(WallPly + BlockPly)

\* The stones compute_block is called on: those inside the wall and the
\* stones D1 and A4 of the wall.
BlockPoints == Inside \cup {Pt(4, 1), Pt(1, 4)}

NextBlock ==
    \/ \E pt \in Corner : PlayBlock(pt)
    \/ PassBlock
    \/ \E pt \in BlockPoints, nlibs \in NLibs : ComputeBlock(pt, nlibs)

\* The games in the enclosed corner, with compute_block called on their
\* stones.
SpecBlock == InitBlock /\ [][NextBlock]_vars

\* ------------------------------------------------------------ capture moves
\* Games played inside the wall before the exploration starts: those of
\* Setups and White B1, Black C1, White passes, Black A1, after which the
\* black stone A1 has the single liberty A2 and the white stone B1 the
\* single liberty B2.
GenSetups ==
    Setups \cup {<< Pt(2, 1), Pt(3, 1), PASS_MOVE, Pt(1, 1) >>}

InitGen ==
    \E g \in {0, 1}, game \in GenSetups :
        StartFrom(Setup(Wall([pos |-> empty_position(g), pos_capture |-> 0],
                             1),
                        game, 1))

\* The heuristic set the callers of gen_playout_moves_capture pass, with
\* expensive_ok: expand passes allpoints and 1, mcplayout the neighbours of
\* the last two moves and 0.
GenCall(caller, shuffle) ==
    IF caller = "expand"
    THEN [heuristic_set |-> allpoints, expensive_ok |-> 1]
    ELSE [heuristic_set |-> make_list_last_moves_neighbors(pos, shuffle),
          expensive_ok |-> 0]

\* gen_playout_moves_capture(pos, heuristic_set, prob, expensive_ok, moves,
\* sizes) as caller calls it.
GenCapture(caller, shuffle) ==
    /\ \E c \in {GenCall(caller, shuffle)} :
       \E g \in {gen_playout_moves_capture(pos, c.heuristic_set,
                                           c.expensive_ok, pos_capture)} :
          /\ mc' = [call |-> "gen_playout_moves_capture",
                    heuristic_set |-> c.heuristic_set,
                    expensive_ok |-> c.expensive_ok,
                    moves |-> g.moves, sizes |-> g.sizes]
          /\ pos_capture' = g.pos_capture
    /\ op' = "gen_playout_moves_capture"
    /\ UNCHANGED << pos, ret, arg, pre, removed, undos, fa, tree, io, pat >>

PlayGen(pt) == PlayTo(pt, WallPly + GenPly)
PassGen == PassTo(WallPly + GenPly)

NextGen ==
    \/ \E pt \in Corner : PlayGen(pt)
    \/ PassGen
    \/ \E caller \in {"expand", "mcplayout"}, shuffle \in {"low", "high"} :
          GenCapture(caller, shuffle)

\* The games in the enclosed corner, with the capture moves listed on their
\* positions.
SpecGen == InitGen /\ [][NextGen]_vars

\* ------------------------------------------------------------ searches
\* The points Black leaves empty when filling the board: two eyes, A1 and
\* C1 or A1 and B2.
EyeSets == {{Pt(1, 1), Pt(3, 1)}, {Pt(1, 1), Pt(2, 2)}}

InitTree ==
    \E g \in {0, 1}, e \in EyeSets :
        StartFrom(Fill([pos |-> empty_position(g), pos_capture |-> 0],
                       BOARD_IMIN, BOARD_IMAX - 1, e))

\* The process has not been ended by a wild pointer.
Alive == op # "crash"

PlayTree(pt) == Alive /\ PlayTo(pt, FillPly + TreePly)
PassTree == Alive /\ PassTo(FillPly + TreePly)

\* The position has not been searched since the latest move (a search
\* leaves the position as it is, so that a second one adds nothing).
Fresh == Alive /\ tree = NoTree

\* expand(tree) on a fresh node of the position, as far as the children
\* array.
Expand ==
    /\ Fresh
    /\ tree' = expand_first_pass(pos, pos_capture)
    /\ op' = "expand"
    /\ UNCHANGED << pos, pos_capture, ret, arg, pre, removed, undos, fa,
                    aux >>

\* The counts (v, w) the simulations may leave in the most visited child and
\* in the other children.
SimBest == {<< 0, 0 >>, << 10, 1 >>, << 10, 2 >>, << 10, 9 >>}
SimOthers == {<< 0, 0 >>, << 10, 9 >>}

\* tree_search ends and leaves t.
SearchDone(t) ==
    /\ tree' = t
    /\ op' = "tree_search"
    /\ UNCHANGED << pos, pos_capture, ret, arg, pre, removed, undos, fa,
                    aux >>

\* most_urgent and best_move walk the children up to the NULL pointer.  When
\* the array holds no NULL they read the word after it: if it is 0 the search
\* goes on as intended, otherwise a wild pointer is taken for a node, and the
\* process is ended or answers with whatever it reads there.
SearchWild(t) ==
    /\ ~Terminated(t)
    /\ \/ \E m \in {PASS_MOVE, RESIGN_MOVE} : SearchDone([t EXCEPT !.move = m])
       \/ /\ tree' = t
          /\ op' = "crash"
          /\ UNCHANGED << pos, pos_capture, ret, arg, pre, removed, undos,
                          fa, aux >>

Searched(t) ==
    \/ \E b \in 1..MaxBest, sb \in SimBest, so \in SimOthers :
          /\ b <= t.nchildren
          /\ so[1] <= sb[1]
          /\ SearchDone(ts_result(ts_simulated(t, b, sb, so)))
    \/ SearchWild(t)

\* tree_search(tree, n, owner_map, disp) on a fresh node of the position, as
\* genmove calls it.
TreeSearch == Fresh /\ Searched(expand_first_pass(pos, pos_capture))

NextTree ==
    \/ \E pt \in Region : PlayTree(pt)
    \/ PassTree
    \/ Expand
    \/ TreeSearch

\* The games that go on from a board filled by Black but for its eyes, with
\* expand and tree_search called on their positions.
SpecTree == InitTree /\ [][NextTree]_vars

\* ------------------------------------------------------------ shuffles
\* The lists that are shuffled: n items that differ, from 1 or from N + 1 on.
ShuffleLists ==
    {[i \in 1..n |-> base + i] : n \in 0..ShuffleLen, base \in {0, N}}

\* SHUFFLE(T, l, n) is entered: _k is n - 1.
InitShuffle ==
    /\ GameFrom([pos |-> empty_position(0), pos_capture |-> 0])
    /\ io = NoIo
    /\ pat = NoPat
    /\ \E l \in ShuffleLists :
          mc = [call |-> "SHUFFLE", l |-> l, orig |-> l, k |-> Len(l) - 1]

\* One iteration of the loop of SHUFFLE, random_int(_k) returning r.
ShuffleStep(r) ==
    /\ mc.call = "SHUFFLE"
    /\ mc.k > 0
    /\ r \in 0..(mc.k - 1)
    /\ mc' = [mc EXCEPT !.l = shuffle_swap(@, mc.k, r), !.k = @ - 1]
    /\ op' = "SHUFFLE"
    /\ UNCHANGED << pos, pos_capture, ret, arg, pre, removed, undos, fa,
                    tree, io, pat >>

NextShuffle == \E r \in 0..(ShuffleLen - 1) : ShuffleStep(r)

\* The runs of SHUFFLE on the lists, with every result of random_int.
SpecShuffle == InitShuffle /\ [][NextShuffle]_vars

\* ------------------------------------------------------------ marks
\* The global Marks; calloc leaves in_use 0.  (value, which only tells the
\* marks of one traversal from those of the one before, is left out.)
MarkNames == {"mark1", "mark2", "already_suggested"}
NoMarks == [m \in MarkNames |-> [in_use |-> 0]]

\* void mark_init(Mark *m)
mark_init(m) == [m EXCEPT !.in_use = 1]

\* void mark_release(Mark *m)
mark_release_kept(m) == m

mark_release(m) == [m EXCEPT !.in_use = 0]

\* The steps of a function that matter for the Marks: mark_init and
\* mark_release of a Mark, the call of a function (skip: inside an if or a
\* loop that may run zero times), a return inside an if, and the jump back
\* to the step to at the end of a loop body.
MkInit(m) == [do |-> "init", what |-> m, skip |-> FALSE, to |-> 0]
MkRelease(m) == [do |-> "release", what |-> m, skip |-> FALSE, to |-> 0]
MkCall(fn, skip) == [do |-> "call", what |-> fn, skip |-> skip, to |-> 0]
MkReturn == [do |-> "return", what |-> "", skip |-> TRUE, to |-> 0]
MkLoop(to) == [do |-> "jump", what |-> "", skip |-> TRUE, to |-> to]

\* The functions that use a Mark or call one that does, each with its steps
\* in the order of its code.
MarkBody ==
    [compute_block |-> << MkInit("mark1"), MkRelease("mark1") >>,
     make_list_neighbor_blocks_in_atari |->
        << MkInit("mark2"), MkCall("compute_block", TRUE), MkLoop(2),
           MkRelease("mark2") >>,
     gen_playout_moves_pat3 |->
        << MkInit("already_suggested"), MkRelease("already_suggested") >>,
     play_move |->
        << MkReturn, MkCall("compute_block", TRUE), MkLoop(2),
           MkCall("compute_block", TRUE) >>,
     read_ladder_attack |->
        << MkCall("play_move", TRUE), MkCall("fix_atari", TRUE), MkLoop(1) >>,
     fix_atari |->
        << MkCall("compute_block", FALSE), MkReturn,
           MkCall("read_ladder_attack", TRUE), MkReturn,
           MkCall("make_list_neighbor_blocks_in_atari", FALSE),
           MkCall("play_move", FALSE), MkReturn,
           MkCall("compute_block", FALSE),
           MkCall("read_ladder_attack", TRUE) >>,
     gen_playout_moves_capture |->
        << MkCall("fix_atari", TRUE), MkLoop(1) >>,
     choose_from |->
        << MkCall("play_move", TRUE), MkCall("fix_atari", TRUE), MkLoop(1) >>,
     mcplayout |->
        << MkCall("gen_playout_moves_capture", TRUE),
           MkCall("choose_from", TRUE),
           MkCall("gen_playout_moves_pat3", TRUE),
           MkCall("choose_from", TRUE), MkCall("choose_from", TRUE),
           MkLoop(1) >>,
     expand |->
        << MkCall("play_move", TRUE), MkLoop(1),
           MkCall("gen_playout_moves_capture", FALSE),
           MkCall("play_move", TRUE), MkLoop(4),
           MkCall("gen_playout_moves_pat3", FALSE),
           MkCall("play_move", TRUE), MkLoop(7),
           MkCall("fix_atari", TRUE), MkLoop(9) >>,
     tree_descend |-> << MkCall("expand", TRUE) >>,
     tree_search |->
        << MkCall("expand", TRUE), MkCall("tree_descend", FALSE),
           MkCall("mcplayout", FALSE), MkLoop(2) >>]

\* The functions the commands call.
MarkRoots == {"tree_search", "play_move"}

InitMarks ==
    /\ GameFrom([pos |-> empty_position(0), pos_capture |-> 0])
    /\ io = NoIo
    /\ pat = NoPat
    /\ \E fn \in MarkRoots :
          mc = [call |-> "marks", stack |-> << [fn |-> fn, at |-> 1] >>,
                marks |-> NoMarks, wiped |-> FALSE]

\* The function that runs, and the step it is at (MkReturn at its end).
MkTop == mc.stack[Len(mc.stack)]
MkStep ==
    IF MkTop.at > Len(MarkBody[MkTop.fn]) THEN [MkReturn EXCEPT !.skip = FALSE]
    ELSE MarkBody[MkTop.fn][MkTop.at]
MkRunning == mc.call = "marks" /\ Len(mc.stack) > 0

\* The stack with the running function at step at.
MkAt(at) == [mc.stack EXCEPT ![Len(mc.stack)].at = at]
MkFrame ==
    UNCHANGED << pos, pos_capture, ret, arg, pre, removed, undos, fa, tree,
                 io, pat >>

\* mark_init(m): wiped tells that m was in use.
MarkInit ==
    /\ MkRunning
    /\ MkStep.do = "init"
    /\ mc' = [mc EXCEPT !.marks[MkStep.what] = mark_init(@),
                        !.wiped = @ \/ mc.marks[MkStep.what].in_use = 1,
                        !.stack = MkAt(MkTop.at + 1)]
    /\ op' = "mark_init"
    /\ MkFrame

\* mark_release(m)
MarkRelease ==
    /\ MkRunning
    /\ MkStep.do = "release"
    /\ mc' = [mc EXCEPT !.marks[MkStep.what] = mark_release(@),
                        !.stack = MkAt(MkTop.at + 1)]
    /\ op' = "mark_release"
    /\ MkFrame

\* The call of a function: it starts at its first step, and the caller goes
\* on with its next step afterwards.
MarkCall ==
    /\ MkRunning
    /\ MkStep.do = "call"
    /\ Len(mc.stack) < MarkDepth
    /\ mc' = [mc EXCEPT !.stack = Append(MkAt(MkTop.at + 1),
                                         [fn |-> MkStep.what, at |-> 1])]
    /\ op' = "call"
    /\ MkFrame

\* The call, return or jump of the step is not taken.
MarkSkip ==
    /\ MkRunning
    /\ MkStep.skip
    /\ mc' = [mc EXCEPT !.stack = MkAt(MkTop.at + 1)]
    /\ op' = "skip"
    /\ MkFrame

\* The loop body is run again.
MarkLoop ==
    /\ MkRunning
    /\ MkStep.do = "jump"
    /\ mc' = [mc EXCEPT !.stack = MkAt(MkStep.to)]
    /\ op' = "loop"
    /\ MkFrame

\* The function returns.
MarkReturn ==
    /\ MkRunning
    /\ MkStep.do = "return"
    /\ mc' = [mc EXCEPT !.stack = SubSeq(@, 1, Len(@) - 1)]
    /\ op' = "return"
    /\ MkFrame

NextMarks ==
    \/ MarkInit
    \/ MarkRelease
    \/ MarkCall
    \/ MarkSkip
    \/ MarkLoop
    \/ MarkReturn

\* The calls of the functions that use the Marks, in every order the code
\* allows.
SpecMarks == InitMarks /\ [][NextMarks]_vars

\* ------------------------------------------------------------ distances
\* The points of the plies that follow: the corner inside the wall, and
\* points next to the wall outside.
CfgPoints == Corner \cup {Pt(5, 1), Pt(4, 4), Pt(1, 5)}

\* The points the distances are taken from.
CfgSources == {Pt(1, 1), Pt(4, 2), Pt(2, 2), Pt(7, 7), Pt(N, N)}

PlayCfg(pt) == PlayTo(pt, WallPly + CfgPly)
PassCfg == PassTo(WallPly + CfgPly)

\* compute_cfg_distances(pos, pt, cfg_map)
CfgDistances(pt) ==
    /\ \E st \in {cfg_run(pos, pt)} :
          mc' = [call |-> "compute_cfg_distances", pt |-> pt,
                 cfg_map |-> st.cfg_map, head |-> Len(st.fringe),
                 tail |-> st.tail]
    /\ op' = "compute_cfg_distances"
    /\ UNCHANGED << pos, pos_capture, ret, arg, pre, removed, undos, fa,
                    tree, io, pat >>

NextCfg ==
    \/ \E pt \in CfgPoints : PlayCfg(pt)
    \/ PassCfg
    \/ \E pt \in CfgSources : CfgDistances(pt)

\* The games inside and around the wall, with compute_cfg_distances called
\* on their positions.
SpecCfg == InitGen /\ [][NextCfg]_vars

\* ------------------------------------------------------------ expansions
\* The points Black leaves empty when filling the board: one point in five,
\* each a one-point eye, and two corners, A1 B1 C1 A2 B2 B3 and A13 B13 A12
\* A11.
Lattice ==
    {Pt(c[1], c[2]) : c \in {c \in (1..N) \X (1..N) : (c[1] + 2 * c[2]) % 5 = 0}}
LowerCorner ==
    {Pt(1, 1), Pt(2, 1), Pt(3, 1), Pt(1, 2), Pt(2, 2), Pt(2, 3)}
UpperCorner == {Pt(1, 13), Pt(2, 13), Pt(1, 12), Pt(1, 11)}
Unfilled == Lattice \cup LowerCorner \cup UpperCorner

\* Plies of that game: Black's moves and the passes of White between them.
UnfilledPly == 2 * (N * N - Cardinality(Unfilled)) - 1

\* Games that follow, White moving first (PASS_MOVE is a pass).  KoGame:
\* White A2, Black A1, White B2, Black B1, White A12, Black passes, White
\* B13, Black A13, which captures B13 and leaves the ko at B13; the black
\* stone A13 has the single liberty B13 and the black block A1 B1 the single
\* liberty C1.
KoGame ==
    << Pt(1, 2), Pt(1, 1), Pt(2, 2), Pt(2, 1), Pt(1, 12), PASS_MOVE,
       Pt(2, 13), Pt(1, 13) >>

\* The same with a pass of Black for A13: the white stone B13 is in atari.
AtariGame == [KoGame EXCEPT ![Len(KoGame)] = PASS_MOVE]

\* White A2, Black B1, White A12, Black A13, and passes.
EyeGame ==
    << Pt(1, 2), Pt(2, 1), Pt(1, 12), PASS_MOVE, PASS_MOVE, Pt(1, 13),
       PASS_MOVE, PASS_MOVE >>

\* Black B1, A2, B2, C1, B3, A12, B13 and A11 with passes of White before
\* each: A1 and A13 are eyes of Black, and White has no legal move left.
FullGame ==
    << PASS_MOVE, Pt(2, 1), PASS_MOVE, Pt(1, 2), PASS_MOVE, Pt(2, 2),
       PASS_MOVE, Pt(3, 1), PASS_MOVE, Pt(2, 3), PASS_MOVE, Pt(1, 12),
       PASS_MOVE, Pt(2, 13), PASS_MOVE, Pt(1, 11) >>

ExpandGames == {KoGame, AtariGame, EyeGame, FullGame}

InitExpand ==
    \E g \in {0, 1}, game \in ExpandGames :
        StartFrom(Setup(Fill([pos |-> empty_position(g), pos_capture |-> 0],
                             BOARD_IMIN, BOARD_IMAX - 1, Unfilled),
                        game, 1))

\* The points of the plies that follow.
ExpandPoints ==
    {Pt(3, 1), Pt(2, 13), Pt(1, 11), Pt(2, 3), Pt(1, 1), Pt(2, 2), Pt(4, 13)}

PlayExpand(pt) == PlayTo(pt, UnfilledPly + Len(KoGame) + ExpandPly)
PassExpand == PassTo(UnfilledPly + Len(KoGame) + ExpandPly)

\* expand(tree) on a fresh node of the position.
ExpandNode ==
    /\ Fresh
    /\ tree' = expand(pos, pos_capture)
    /\ op' = "expand"
    /\ UNCHANGED << pos, pos_capture, ret, arg, pre, removed, undos, fa,
                    aux >>

NextExpand ==
    \/ \E pt \in ExpandPoints : PlayExpand(pt)
    \/ PassExpand
    \/ ExpandNode

\* Games on a board that Black has filled but for its eyes and two corners,
\* with expand called on their positions.
SpecExpand == InitExpand /\ [][NextExpand]_vars

\* ------------------------------------------------------------ coordinate strings
\* The strings given to parse_coord: a letter of A..O in either case followed
\* by a row number 0..14, by a row number with a leading zero, and the word
\* pass in three spellings.
ColTexts == {<< Upper[k] >> : k \in 1..15} \cup {<< Lower[k] >> : k \in 1..15}
RowTexts ==
    {<< Digit[k] >> : k \in 1..10} \cup {<< "1", Digit[k] >> : k \in 1..5}
    \cup {<< "0", Digit[k] >> : k \in 2..3}
PassTexts ==
    {<< "p", "a", "s", "s" >>, << "P", "A", "S", "S" >>,
     << "P", "a", "s", "s" >>}
CoordInputs ==
    {Text(c \o r) : c \in ColTexts, r \in RowTexts}
    \cup {Text(p) : p \in PassTexts}

InitCoord ==
    \E g \in {0, 1} :
        StartFrom([pos |-> empty_position(g), pos_capture |-> 0])

\* pt = parse_coord(s), on the first string read
ParseCoord(s) ==
    /\ op = "init"
    /\ io' = [io EXCEPT !.s = s, !.pt = parse_coord(s), !.str = << >>]
    /\ op' = "parse_coord"
    /\ UNCHANGED << pos, pos_capture, ret, arg, pre, removed, undos, fa,
                    tree, pat, mc >>

\* str_coord(pt, str) on the point parsed last
StrCoord ==
    /\ op = "parse_coord"
    /\ io' = [io EXCEPT !.str = str_coord(io.pt)]
    /\ op' = "str_coord"
    /\ UNCHANGED << pos, pos_capture, ret, arg, pre, removed, undos, fa,
                    tree, pat, mc >>

NextCoord ==
    \/ \E s \in CoordInputs : ParseCoord(s)
    \/ StrCoord

SpecCoord == InitCoord /\ [][NextCoord]_vars


\* ------------------------------------------------------------ GTP
\* The coordinates given to the play command.
GtpInputs ==
    {Text(<< "p", "a", "s", "s" >>), Text(<< "A", "1" >>),
     Text(<< "B", "1" >>)}

InitGtp ==
    \E g \in {0, 1} :
        StartFrom([pos |-> empty_position(g), pos_capture |-> 0])

\* gtp_io, lines 2080-2085: what the play command does with the point pt.
gtp_play(p, pc, pt) ==
    IF p.color[pt] = "." THEN play_move(p, pt, pc)
    ELSE IF pt = PASS_MOVE
         THEN [pos |-> pass_move(p), pos_capture |-> pc, ret |-> ""]
         ELSE [pos |-> p, pos_capture |-> pc,
               ret |-> "Error Illegal move: point not EMPTY\n"]

\* The command "play <color> <str>".
GtpPlay(str) ==
    /\ pos.n < GtpPly
    /\ LET pt == parse_coord(str)
           r == gtp_play(pos, pos_capture, pt)
       IN  /\ pos' = r.pos
           /\ pos_capture' = r.pos_capture
           /\ ret' = r.ret
           /\ arg' = pt
           /\ io' = [io EXCEPT !.s = str, !.pt = pt, !.answer = << >>]
    /\ op' = "gtp_play"
    /\ pre' = [pos |-> pos, pos_capture |-> pos_capture]
    /\ UNCHANGED << removed, undos, fa, tree, pat, mc >>

\* gtp_io, lines 2101-2105: the move pt is made and answered.
gtp_move(p, pc, pt) ==
    IF pt = PASS_MOVE
    THEN [pos |-> pass_move(p), pos_capture |-> pc]
    ELSE IF pt # RESIGN_MOVE
         THEN [pos |-> play_move(p, pt, pc).pos,
               pos_capture |-> play_move(p, pt, pc).pos_capture]
         ELSE [pos |-> p, pos_capture |-> pc]

\* genmove has chosen pt, t being the tree it keeps.
GenmoveResult(pt, t) ==
    /\ pos' = gtp_move(pos, pos_capture, pt).pos
    /\ pos_capture' = gtp_move(pos, pos_capture, pt).pos_capture
    /\ arg' = pt
    /\ io' = [io EXCEPT !.answer = str_coord(pt)]
    /\ tree' = t
    /\ op' = "genmove"
    /\ pre' = [pos |-> pos, pos_capture |-> pos_capture]
    /\ UNCHANGED << ret, removed, undos, fa, pat, mc >>

\* genmove after tree_search has left t in the fresh root.
GenmoveSearched(t) ==
    \/ \E b \in 1..MaxBest, sb \in SimBest, so \in SimOthers :
          /\ b <= t.nchildren
          /\ so[1] <= sb[1]
          /\ GenmoveResult(ts_answer(best_move(ts_simulated(t, b, sb, so))),
                           ts_result(ts_simulated(t, b, sb, so)))
    \/ /\ ~Terminated(t)
       /\ \/ \E m \in {PASS_MOVE, RESIGN_MOVE} :
                GenmoveResult(m, [t EXCEPT !.move = m])
          \/ /\ tree' = t
             /\ op' = "crash"
             /\ UNCHANGED << pos, pos_capture, ret, arg, pre, removed,
                             undos, fa, aux >>

\* The command "genmove <color>"; the explored sessions hold at most one
\* genmove that searches.
GtpGenmove ==
    /\ op # "crash"
    /\ pos.n <= GtpPly
    /\ IF pos.last = PASS_MOVE /\ pos.n > 2
       THEN GenmoveResult(PASS_MOVE, tree)
       ELSE /\ tree = NoTree
            /\ GenmoveSearched(expand_first_pass(pos, pos_capture))

NextGtp ==
    \/ \E str \in GtpInputs : GtpPlay(str)
    \/ GtpGenmove

\* The sessions of play and genmove commands from the empty board.
SpecGtp == InitGtp /\ [][NextGtp]_vars


\* ------------------------------------------------------------ pattern probes
InitPat ==
    \E g \in {0, 1} :
        StartFrom([pos |-> empty_position(g), pos_capture |-> 0])

\* The explored games end with the probes of their last position.
Unprobed == op # "pat3_match"

PlayPat(pt) == Unprobed /\ PlayTo(pt, PatPly)
PassPat == Unprobed /\ PassTo(PatPly)

\* The points probed: the 3x3 corner A1..C3.
ProbePts == {Pt(x, y) : x \in 1..3, y \in 1..3}

\* pat3_match(pos, pt)
Pat3Match(pt) ==
    /\ Unprobed
    /\ pat' = [pat EXCEPT !.query = "pat3_match", !.pt = pt,
                          !.match = pat3_match(pos, pt)]
    /\ op' = "pat3_match"
    /\ UNCHANGED << pos, pos_capture, ret, arg, pre, removed, undos, fa,
                    tree, io, mc >>

NextPat ==
    \/ \E pt \in Region : PlayPat(pt)
    \/ PassPat
    \/ \E pt \in ProbePts : Pat3Match(pt)

\* The games on the corner, with pat3_match called on their positions.
SpecPat == InitPat /\ [][NextPat]_vars


\* ------------------------------------------------------------ large pattern probes
\* The patterns of the files below, in the characters of patterns.spat:
\* ..........#.#..##.#.#, ........O, ........O.#.#..##.#.#,
\* .OXXXO..X..O..X......, ..O......, ..O......OX.X......XO.
R_corner ==
    << ".", ".", ".", ".", ".", ".", ".", ".", ".",
       ".", "#", ".", "#", ".", ".", "#", "#", ".",
       "#", ".", "#" >>

R_stone1 ==
    << ".", ".", ".", ".", ".", ".", ".", ".", "O" >>

R_stone3 ==
    << ".", ".", ".", ".", ".", ".", ".", ".", "O",
       ".", "#", ".", "#", ".", ".", "#", "#", ".",
       "#", ".", "#" >>

R_first ==
    << ".", "O", "X", "X", "X", "O", ".", ".", "X",
       ".", ".", "O", ".", ".", "X", ".", ".", ".",
       ".", ".", "." >>

R_inner ==
    << ".", ".", "O", ".", ".", ".", ".", ".", "." >>

R_outer ==
    << ".", ".", "O", ".", ".", ".", ".", ".", ".",
       "O", "X", ".", "X", ".", ".", ".", ".", ".",
       ".", "X", "O" >>

\* A dictionary without collisions: the empty corner seen from B2 over 3
\* rings, a stone of the opponent at the lower left neighbour over 1 ring
\* and over 3 rings near the corner.  Probabilities 0.1, 0.2, 0.3.
WellFormed ==
    [prob |-> (1 :> 100) @@ (2 :> 200) @@ (3 :> 300),
     spat |-> << [id |-> 1, strpat |-> R_corner],
                 [id |-> 2, strpat |-> R_stone1],
                 [id |-> 3, strpat |-> R_stone3] >>]

\* A dictionary whose third pattern starts at the slot of the first and
\* whose second probe is the slot LENGTH.  Probabilities 0.1, 0.2, 0.3.
Colliding ==
    [prob |-> (1 :> 100) @@ (2 :> 200) @@ (3 :> 300),
     spat |-> << [id |-> 1, strpat |-> R_first],
                 [id |-> 2, strpat |-> R_inner],
                 [id |-> 3, strpat |-> R_outer] >>]

\* patterns.prob and patterns.spat as main finds them: either can be
\* missing.
LargeFiles ==
    {[prob_ok |-> a, spat_ok |-> b, prob |-> f.prob, spat |-> f.spat] :
        a \in BOOLEAN, b \in BOOLEAN, f \in {WellFormed, Colliding}}

\* What the word after the table holds when find_pat reads it: what
\* insert_pat left there, a zero word, another word, or no readable memory.
Strays == {"kept", "zero", "other", "crash"}

\* The outcomes of a call whose run with the word after the table kept
\* tells by oob whether that word is read.
Outcomes(oob) == IF oob THEN Strays ELSE {"kept"}

\* The game played before the explored ones (Black moves first): Black C1,
\* White C2, Black A3, White C5, Black E2, White A2, which puts the third
\* pattern of Colliding around C3.
LargeOpening ==
    << Pt(3, 1), Pt(3, 2), Pt(1, 3), Pt(3, 5), Pt(5, 2), Pt(1, 2) >>

\* main before init_large_patterns(): the empty board, and the two files
\* as they are found.
InitLarge ==
    \E files \in LargeFiles :
        /\ GameFrom([pos |-> empty_position(0), pos_capture |-> 0])
        /\ io = NoIo
        /\ pat = [NoPat EXCEPT !.files = files]
        /\ mc = NoCall

\* main: init_large_patterns(), before the first command.
InitLargePatterns ==
    /\ pat.query = ""
    /\ LET kept == init_large_patterns(pat.files, "kept")
       IN  \E stray \in Outcomes(kept.oob) :
              LET d == IF stray = "kept" THEN kept
                       ELSE init_large_patterns(pat.files, stray)
              IN  pat' = [pat EXCEPT
                            !.query = "init_large_patterns",
                            !.dict = IF stray = "crash" THEN NoPat.dict
                                                        ELSE d,
                            !.oob = d.oob,
                            !.crash = stray = "crash"]
    /\ op' = "init_large_patterns"
    /\ UNCHANGED << pos, pos_capture, ret, arg, pre, removed, undos, fa,
                    tree, io, mc >>

\* The process runs, the dictionary is loaded and no query has been made on
\* the position yet.
Unqueried == ~pat.crash /\ pat.query = "init_large_patterns"

\* The play commands of LargeOpening, on the empty board.
PlayOpening ==
    /\ Unqueried
    /\ pos.n = 0
    /\ LET st == Setup([pos |-> pos, pos_capture |-> pos_capture],
                       LargeOpening, 1)
       IN  /\ pos' = st.pos
           /\ pos_capture' = st.pos_capture
    /\ pat' = [pat EXCEPT !.n0 = Len(LargeOpening)]
    /\ ret' = ""
    /\ op' = "play"
    /\ arg' = LargeOpening[Len(LargeOpening)]
    /\ pre' = [pos |-> pos, pos_capture |-> pos_capture]
    /\ UNCHANGED << removed, undos, fa, tree, io, mc >>

PlayLarge(pt) == Unqueried /\ PlayTo(pt, pat.n0 + LargePly)
PassLarge == Unqueried /\ PassTo(pat.n0 + LargePly)

\* The points probed: B2 and C3.
LargeProbePts == {Pt(2, 2), Pt(3, 3)}

\* The variables after a query has left the record q.
QueryResult(name, q) ==
    /\ pat' = [pat EXCEPT !.query = name, !.pt = q.pt, !.prob = q.prob,
                          !.ids = q.ids, !.rec = q.rec, !.perm = q.perm,
                          !.found = q.found, !.oob = q.oob,
                          !.crash = q.crash]
    /\ op' = name
    /\ UNCHANGED << pos, pos_capture, ret, arg, pre, removed, undos, fa,
                    tree, io, mc >>

NoQuery ==
    [pt |-> 0, prob |-> 0, ids |-> << >>, rec |-> 0, perm |-> 0,
     found |-> FALSE, oob |-> FALSE, crash |-> FALSE]

\* expand, lines 1655 and 1686: copy_to_large_board(pos) and
\* large_pattern_probability(pt).
LargePatternProbability(pt) ==
    /\ Unqueried
    /\ LET kept == large_pattern_probability(pat.dict, pos.color, pt, "kept")
       IN  \E stray \in Outcomes(kept.oob) :
              LET a == IF stray \in {"kept", "crash"} THEN kept
                       ELSE large_pattern_probability(pat.dict, pos.color,
                                                      pt, stray)
              IN  QueryResult("large_pattern_probability",
                      IF stray = "crash"
                      THEN [NoQuery EXCEPT !.pt = pt, !.oob = TRUE,
                                           !.crash = TRUE]
                      ELSE [NoQuery EXCEPT !.pt = pt, !.prob = a.prob,
                                           !.oob = a.oob])

\* The command match_pat of debug.c: copy_to_large_board(pos) and
\* make_list_pat_matching(pt, 0).
MatchPat(pt) ==
    /\ Unqueried
    /\ LET kept == make_list_pat_matching(pat.dict, pos.color, pt, "kept")
       IN  \E stray \in Outcomes(kept.oob) :
              LET a == IF stray \in {"kept", "crash"} THEN kept
                       ELSE make_list_pat_matching(pat.dict, pos.color,
                                                   pt, stray)
              IN  QueryResult("make_list_pat_matching",
                      IF stray = "crash"
                      THEN [NoQuery EXCEPT !.pt = pt, !.oob = TRUE,
                                           !.crash = TRUE]
                      ELSE [NoQuery EXCEPT !.pt = pt, !.ids = a.ids,
                                           !.oob = a.oob])

\* find_pat on the i-th permutation of the n-th pattern of patterns.spat,
\* once the file is loaded.
FindPat(n, i) ==
    /\ Unqueried
    /\ pos.n = 0
    /\ pat.dict.large_patterns_loaded # 0
    /\ n \in 1..Len(pat.files.spat)
    /\ LET key  == zobrist_hash(permute(i, pat.files.spat[n].strpat))
           kept == find_pat(pat.dict.patterns, key, "kept")
       IN  \E stray \in Outcomes(kept.oob) :
              LET f == IF stray \in {"kept", "crash"} THEN kept
                       ELSE find_pat(pat.dict.patterns, key, stray)
                  hit == f.key = key
              IN  QueryResult("find_pat",
                      IF stray = "crash"
                      THEN [NoQuery EXCEPT !.rec = n, !.perm = i,
                                           !.oob = TRUE, !.crash = TRUE]
                      ELSE [NoQuery EXCEPT
                               !.rec = n, !.perm = i, !.found = hit,
                               !.oob = f.oob,
                               !.prob = IF hit
                                        THEN pat.dict.patterns[f.h].prob
                                        ELSE 0,
                               !.ids = IF hit
                                       THEN << pat.dict.patterns[f.h].id >>
                                       ELSE << >>])

NextLarge ==
    \/ InitLargePatterns
    \/ PlayOpening
    \/ \E pt \in Region : PlayLarge(pt)
    \/ PassLarge
    \/ \E pt \in LargeProbePts : LargePatternProbability(pt)
    \/ \E pt \in LargeProbePts : MatchPat(pt)
    \/ \E n \in 1..3, i \in 0..7 : FindPat(n, i)

\* The pattern files loaded at start-up, short games on the corner, and the
\* queries of the dictionary on their positions.
SpecLarge == InitLarge /\ [][NextLarge]_vars


\* ------------------------------------------------------------ playout calls
\* A game played before the playouts.  Black A2, White C2, Black B2, White
\* D2, Black C1, White E1, Black D1, White A1, Black passes: the two black
\* stones C1 D1 and the white stone A1 have B1 as their only liberty.
TwoStonesOpening ==
    << Pt(1, 2), Pt(3, 2), Pt(2, 2), Pt(4, 2), Pt(3, 1), Pt(5, 1), Pt(4, 1),
       Pt(1, 1), PASS_MOVE >>

\* Black A2, White C2, Black B2, White D1, Black C1, White A1, Black passes:
\* the black stone C1 and the white stone A1 have B1 as their only liberty.
OneStoneOpening ==
    << Pt(1, 2), Pt(3, 2), Pt(2, 2), Pt(4, 1), Pt(3, 1), Pt(1, 1),
       PASS_MOVE >>

\* The points Black leaves empty when he fills the board: A1 B1 A2, or the
\* two eyes A1 and C1.
CornerEye == {Pt(1, 1), Pt(2, 1), Pt(1, 2)}
TwoEyes == {Pt(1, 1), Pt(3, 1)}

\* st after k more passes (the count is halved to keep the evaluation
\* shallow; n is never negative, the test of it makes st be evaluated first).
RECURSIVE Passes(_, _)
Passes(st, k) ==
    IF k = 0 \/ st.pos.n < 0 THEN st
    ELSE IF k = 1 THEN [st EXCEPT !.pos = pass_move(st.pos)]
    ELSE Passes(Passes(st, k \div 2), k - (k \div 2))

\* The positions the playouts start from: the empty board, the two openings
\* above, the board filled by Black but for two eyes, and the board filled
\* by Black but for the corner (FillPly - 4 plies) after the passes that
\* bring n to MAX_GAME_LEN - 2.
PlayoutStart(g, start) ==
    LET empty == [pos |-> empty_position(g), pos_capture |-> 0]
    IN  CASE start = "empty" -> empty
          [] start = "onestone" -> Setup(empty, OneStoneOpening, 1)
          [] start = "twostones" -> Setup(empty, TwoStonesOpening, 1)
          [] start = "twoeyes" ->
                Fill(empty, BOARD_IMIN, BOARD_IMAX - 1, TwoEyes)
          [] start = "late" ->
                Passes(Fill(empty, BOARD_IMIN, BOARD_IMAX - 1, CornerEye),
                       MAX_GAME_LEN - 2 - (FillPly - 4))

PlayoutStarts == {"empty", "onestone", "twostones", "twoeyes", "late"}

InitPlayout ==
    \E g \in {0, 1}, start \in PlayoutStarts :
        StartFrom(PlayoutStart(g, start))

\* What the random generator gives in one iteration of mcplayout: the order
\* of the shuffled neighbours, r = random_int(10000) (0 tests every move
\* for self-atari, 7000 the suggested ones only, 9500 none), r3 =
\* random_int(1000) (999 leaves the 3x3 patterns out) and i0 =
\* random_int(N*W) (50 makes the random moves start at G10, 92 at G7, 171 at B1).
McDraws ==
    { [shuffle |-> "low", r |-> 0, r3 |-> 0, i0 |-> 171],
      [shuffle |-> "high", r |-> 0, r3 |-> 999, i0 |-> 92],
      [shuffle |-> "high", r |-> 7000, r3 |-> 999, i0 |-> 50],
      [shuffle |-> "low", r |-> 9500, r3 |-> 999, i0 |-> 171] }

\* tree_search, lines 1853-1857: amaf_map is cleared and mcplayout starts on
\* a copy of the position.
McPlayoutBegin ==
    /\ mc.call = ""
    /\ mc' = [call |-> "mcplayout", pos |-> pos,
              pos_capture |-> pos_capture, start_n |-> pos.n,
              passes |-> 0, amaf_map |-> [i \in Index |-> 0],
              rejected |-> << >>, move |-> PASS_MOVE, before |-> pos,
              iter |-> 0]
    /\ op' = "mcplayout"
    /\ UNCHANGED << pos, pos_capture, ret, arg, pre, removed, undos, fa,
                    tree, io, pat >>

\* mcplayout, lines 1550-1583: one iteration of the loop.
McPlayoutStep(draw) ==
    /\ mc.call = "mcplayout"
    /\ mc_running(mc)
    /\ mc.iter < McSteps
    /\ LET s == mc_iteration(mc, draw)
       IN  /\ mc' = [mc EXCEPT !.pos = s.pos,
                               !.pos_capture = s.pos_capture,
                               !.passes = s.passes,
                               !.amaf_map = s.amaf_map,
                               !.rejected = s.rejected,
                               !.move = s.move,
                               !.before = mc.pos,
                               !.iter = @ + 1]
           /\ pos_capture' = s.pos_capture
    /\ op' = "mcplayout"
    /\ UNCHANGED << pos, ret, arg, pre, removed, undos, fa, tree, io, pat >>

NextPlayout ==
    \/ McPlayoutBegin
    \/ \E draw \in McDraws : McPlayoutStep(draw)

\* The playouts on the starting positions.
SpecPlayout == InitPlayout /\ [][NextPlayout]_vars

\* ------------------------------------------------------------ search iterations
\* The points Black leaves empty for the finished game: its eyes and the
\* points A1..D2, D3 being filled.
SearchUnfilled ==
    (Lattice \ {Pt(4, 3)}) \cup {Pt(c[1], c[2]) : c \in (1..4) \X (1..2)}

\* White B1, A2, B2, C2, D1 and D2 with passes of Black in between: a white
\* group with the eyes A1 and C1, Black to move, and no legal move left for
\* either side but the pass.
SearchGame ==
    << Pt(2, 1), PASS_MOVE, Pt(1, 2), PASS_MOVE, Pt(2, 2), PASS_MOVE,
       Pt(3, 2), PASS_MOVE, Pt(4, 1), PASS_MOVE, Pt(4, 2) >>

\* The same with D3 and E1 left empty: each side has these two moves.
OpenUnfilled == SearchUnfilled \cup {Pt(4, 3), Pt(5, 1)}

SearchSetups ==
    { [unfilled |-> SearchUnfilled, game |-> SearchGame],
      [unfilled |-> OpenUnfilled, game |-> SearchGame],
      [unfilled |-> Unfilled, game |-> AtariGame],
      [unfilled |-> Unfilled, game |-> FullGame] }

InitSearch ==
    \E su \in SearchSetups :
        StartFrom(Setup(Fill([pos |-> empty_position(0), pos_capture |-> 0],
                             BOARD_IMIN, BOARD_IMAX - 1, su.unfilled),
                        su.game, 1))

\* The draws of a search: those of one run of tree_search follow one rule.
SearchDraws == {draw \in McDraws : draw.r = 0}

\* tree_search, lines 1846-1850: the root is expanded.
TreeSearchBegin(draw) ==
    /\ Fresh
    /\ mc.call = ""
    /\ tree' = ts_root(pos, pos_capture)
    /\ mc' = [call |-> "tree_search", draw |-> draw, i |-> 0,
              before |-> NoTree, descended |-> NoTree, path |-> << >>,
              passes |-> 0, expanded |-> << >>,
              amaf_descent |-> [i \in Index |-> 0],
              amaf_map |-> [i \in Index |-> 0], score |-> 0,
              played |-> << >>, ub |-> FALSE]
    /\ op' = "expand"
    /\ UNCHANGED << pos, pos_capture, ret, arg, pre, removed, undos, fa, io,
                    pat >>

\* tree_search, lines 1852-1858: one iteration of the loop.  When a children
\* array without its NULL is walked, the pointer read behind it is NULL or
\* the program ends at it.
TreeSearchIteration ==
    /\ mc.call = "tree_search"
    /\ op # "crash"
    /\ mc.i < SearchIters
    /\ \E r \in {ts_iteration(tree, pos_capture, mc.draw)} :
          \/ /\ tree' = r.tree
             /\ mc' = [call |-> "tree_search", draw |-> mc.draw,
                       i |-> mc.i + 1, before |-> tree,
                       descended |-> r.descended, path |-> r.path,
                       passes |-> r.passes, expanded |-> r.expanded,
                       amaf_descent |-> r.amaf_descent,
                       amaf_map |-> r.amaf_map, score |-> r.score,
                       played |-> r.played, ub |-> r.ub]
             /\ pos_capture' = r.pos_capture
             /\ op' = "tree_search"
          \/ /\ r.ub
             /\ op' = "crash"
             /\ UNCHANGED << tree, mc, pos_capture >>
    /\ UNCHANGED << pos, ret, arg, pre, removed, undos, fa, io, pat >>

NextSearch ==
    \/ \E draw \in SearchDraws : TreeSearchBegin(draw)
    \/ TreeSearchIteration

\* The searches on a finished game, on a game with captures left and on a
\* board without a candidate move.
SpecSearch == InitSearch /\ [][NextSearch]_vars


\* ------------------------------------------------------------ rules of Go
\* The notions the claims are stated with, defined on a colour array alone
\* (sets and fixpoints, not the code's traversal).
Nbrs(q) == {q - N - 1, q + 1, q + N + 1, q - 1}

RECURSIVE Grow(_, _, _)
Grow(c, col, S) ==
    LET T == S \cup {q \in UNION {Nbrs(s) : s \in S} : c[q] = col}
    IN  IF T = S THEN S ELSE Grow(c, col, T)

\* The block (maximal connected set of stones of one colour) containing q.
BlockOf(c, q) == Grow(c, c[q], {q})

\* The liberties of a set of stones.
LibsOf(c, B) == {q \in UNION {Nbrs(s) : s \in B} : c[q] = "."}

\* The board once an 'X' stone is put on pt.
Placed(c, pt) == [c EXCEPT ![pt] = "X"]

\* The stones of the opponent blocks next to pt left without liberty by a
\* stone put on pt.
CapturedBy(c, pt) ==
    LET c1 == Placed(c, pt)
    IN  UNION {BlockOf(c1, q) : q \in {r \in Nbrs(pt) : c1[r] = "x"
                                        /\ LibsOf(c1, BlockOf(c1, r)) = {}}}

\* The board after the stone is put and the captured stones are taken off.
AfterCapture(c, pt) ==
    LET K == CapturedBy(c, pt)
    IN  [q \in Index |-> IF q \in K THEN "." ELSE Placed(c, pt)[q]]

\* The block of the stone put on pt keeps a liberty once the captures are made.
KeepsLiberty(c, pt) ==
    LET c2 == AfterCapture(c, pt)
    IN  LibsOf(c2, BlockOf(c2, pt)) # {}

\* All on-board neighbours of pt are opponent stones.
EyeishForOpponent(c, pt) == \A q \in Nbrs(pt) : c[q] \in {"x", " "}

PlayDone == op = "play"
PlayOK == op = "play" /\ ret = ""
PlayError == op = "play" /\ ret # ""

\* ------------------------------------------------------------ claims
\* C1: on an empty point play_move succeeds iff the point is not the ko point
\* and, once the adjacent opponent blocks left without liberties are removed,
\* the block of the played stone has a liberty; otherwise it returns an error
\* string (ko retake or suicide).
C1_LegalIff ==
    PlayDone =>
        /\ (ret = "") <=> (arg # pre.pos.ko /\ KeepsLiberty(pre.pos.color, arg))
        /\ ret \in {"", RetKo, RetSuicide}

\* A move that is legal only because it captures: the stone put on the board
\* has no liberty until the captured stones are taken off.
C1_Witness ==
    /\ PlayOK
    /\ LET c1 == Placed(pre.pos.color, arg)
       IN  LibsOf(c1, BlockOf(c1, arg)) = {}

\* C2: after a successful play_move exactly the stones of the adjacent opponent
\* blocks left without liberty are removed, the played stone is at pt as 'x',
\* and every other stone has its case swapped.
C2_CaptureAndSwap ==
    PlayOK =>
        LET c == pre.pos.color
            K == CapturedBy(c, arg)
        IN  /\ pos.color[arg] = "x"
            /\ \A q \in Index \ {arg} :
                  pos.color[q] = IF q \in K THEN "." ELSE SWAP_CASE(c[q])

\* A successful move that captures a block of at least two stones while other
\* stones stay on the board.
C2_Witness ==
    /\ PlayOK
    /\ Cardinality(CapturedBy(pre.pos.color, arg)) >= 2
    /\ \E q \in OnBoard \ {arg} : pos.color[q] \in {"X", "x"}


\* C3: after a successful play_move, ko is nonzero iff the move captured
\* exactly one stone and the played point was eyeish before the move, and ko
\* is then the captured point; a play_move at the ko point on the next ply is
\* rejected with the ko error; a pass, or any other successful move, leaves
\* the old ko point free again.
C3_Ko ==
    /\ PlayOK =>
          LET K == CapturedBy(pre.pos.color, arg)
          IN  /\ (pos.ko # 0) <=>
                   (Cardinality(K) = 1 /\ EyeishForOpponent(pre.pos.color, arg))
              /\ (pos.ko # 0) => (K = {pos.ko})
              /\ (pre.pos.ko # 0) => (pos.ko # pre.pos.ko)
    /\ (PlayDone /\ pre.pos.ko # 0 /\ arg = pre.pos.ko) => (ret = RetKo)
    /\ (op = "pass") => (pos.ko = 0)

\* The retake of a ko is rejected.
C3_Witness ==
    /\ PlayError
    /\ ret = RetKo
    /\ pre.pos.ko # 0
    /\ arg = pre.pos.ko

\* C4: after any sequence of play_move and pass_move calls, rejected calls
\* included, env4[pt] and env4d[pt] equal compute_env4(pos, pt, 0) and
\* compute_env4(pos, pt, 4) at every on-board point.
C4_Env4 ==
    \A q \in OnBoard :
        /\ pos.env4[q] = compute_env4(pos, q, 0)
        /\ pos.env4d[q] = compute_env4(pos, q, 4)

\* A suicide by White rejected after a capture was made in the game.
C4_Witness ==
    /\ PlayError
    /\ ret = RetSuicide
    /\ pos.n % 2 = 1
    /\ removed >= 1

\* C5 as claimed: when play_move returns an error string every field of the
\* Position has the value it had before the call.
C5_AllFieldsKept == PlayError => (pos = pre.pos)

\* C5: when play_move returns an error string, the board, the caches of
\* the on-board points, n, ko, last, last2, last3, cap, capX and komi have the
\* values they had before the call, and ko_old holds the value of ko.
C5_ErrorKeepsGame ==
    PlayError =>
        /\ pos.color = pre.pos.color
        /\ \A q \in OnBoard : /\ pos.env4[q] = pre.pos.env4[q]
                              /\ pos.env4d[q] = pre.pos.env4d[q]
        /\ pos.n = pre.pos.n
        /\ pos.ko = pre.pos.ko
        /\ pos.last = pre.pos.last
        /\ pos.last2 = pre.pos.last2
        /\ pos.last3 = pre.pos.last3
        /\ pos.cap = pre.pos.cap
        /\ pos.capX = pre.pos.capX
        /\ pos.komi = pre.pos.komi
        /\ pos.ko_old = pre.pos.ko

\* A rejected ko retake that changed ko_old.
C5_Witness ==
    /\ PlayError
    /\ ret = RetKo
    /\ pos.ko_old # pre.pos.ko_old


\* The latest call undid a move that had captured at most one stone.
UndoneSmall ==
    /\ op = "undo"
    /\ Cardinality(CapturedBy(pre.pos.color, arg)) <= 1

\* C6 as claimed: a legal move that captures zero or one stone, followed by
\* undo_move, yields a Position equal to the original in every field.
C6_AllFieldsRestored ==
    UndoneSmall =>
        /\ pos.color = pre.pos.color
        /\ pos.env4 = pre.pos.env4
        /\ pos.env4d = pre.pos.env4d
        /\ pos.n = pre.pos.n
        /\ pos.ko = pre.pos.ko
        /\ pos.ko_old = pre.pos.ko_old
        /\ pos.last = pre.pos.last
        /\ pos.last2 = pre.pos.last2
        /\ pos.last3 = pre.pos.last3
        /\ pos.cap = pre.pos.cap
        /\ pos.capX = pre.pos.capX

\* C6: a legal move that captures zero or one stone, followed by undo_move,
\* restores the board, the caches of the on-board points, n, ko, last, last2,
\* cap and capX; ko_old is left holding the value of ko and last3 the value of
\* last2.
C6_UndoRestoresGame ==
    UndoneSmall =>
        /\ pos.color = pre.pos.color
        /\ \A q \in OnBoard : /\ pos.env4[q] = pre.pos.env4[q]
                              /\ pos.env4d[q] = pre.pos.env4d[q]
        /\ pos.n = pre.pos.n
        /\ pos.ko = pre.pos.ko
        /\ pos.last = pre.pos.last
        /\ pos.last2 = pre.pos.last2
        /\ pos.cap = pre.pos.cap
        /\ pos.capX = pre.pos.capX
        /\ pos.ko_old = pre.pos.ko
        /\ pos.last3 = pre.pos.last2

\* The undo of a move that captured exactly one stone and made a ko.
C6_Witness ==
    /\ op = "undo"
    /\ Cardinality(CapturedBy(pre.pos.color, arg)) = 1
    /\ pos_capture # 0
    /\ pos.color[pos_capture] = "x"
    /\ pre.pos.last2 # pre.pos.last3


\* C7 as claimed: cap + capX equals the number of stones removed from the
\* board by captures since the start of the game.
C7_CapSum == pos.cap + pos.capX = removed

\* The stones of position p with their real colours (X is Black when n is
\* even).
RealBoard(p) ==
    [q \in OnBoard |->
        IF p.color[q] = "." THEN "."
        ELSE IF (p.color[q] = "X") = (p.n % 2 = 0) THEN "B" ELSE "W"]

\* The last call was a play_move or pass_move that succeeded.
PlyDone == (op = "play" /\ ret = "") \/ op = "pass"

\* C32: the board after a successful play_move that follows a successful
\* ply is never the board as it was before that ply, two plies earlier.
C32_NoRepetition ==
    [][(PlyDone /\ op' = "play" /\ ret' = "")
           => RealBoard(pos') # RealBoard(pre.pos)]_vars

\* A move has captured one stone and set the ko point: taking that stone
\* back at once would leave the board as it was before the move, and
\* play_move refuses it.
C32_Witness ==
    /\ PlayOK
    /\ pos.ko # 0
    /\ \A q \in OnBoard :
          AfterCapture(pos.color, pos.ko)[q] = SWAP_CASE(pre.pos.color[q])
    /\ play_move(pos, pos.ko, pos_capture).ret = RetKo

\* C35: in every position of a game of play_move and pass_move calls every
\* block of stones on the board has at least one liberty.
C35_BlocksHaveLiberties ==
    \A q \in Stones(pos) : LibsOf(pos.color, BlockOf(pos.color, q)) # {}

\* A stone was played that had no liberty when it was put on the board: the
\* move has captured, and the liberties of the stone are among the points of
\* the captured stones.
C35_Witness ==
    /\ PlayOK
    /\ \E c1 \in {Placed(pre.pos.color, arg)} :
          LibsOf(c1, BlockOf(c1, arg)) = {}
    /\ \E libs \in {LibsOf(pos.color, BlockOf(pos.color, arg))} :
          /\ libs # {}
          /\ libs \subseteq CapturedBy(pre.pos.color, arg)

\* ------------------------------------------------------------ atari claims
FixDone == op = "fix_atari"

\* The block fix_atari was called on (pos is left as it was at the call), its
\* liberties, and its liberty when there is only one.
FixBlock == BlockOf(pos.color, arg)
FixLibs == LibsOf(pos.color, FixBlock)
TheLib == CHOOSE l \in FixLibs : TRUE

\* fix_atari was called on an opponent's / an own block with one liberty.
OppAtari == FixDone /\ pos.color[arg] = "x" /\ Cardinality(FixLibs) = 1
OwnAtari == FixDone /\ pos.color[arg] = "X" /\ Cardinality(FixLibs) = 1

\* The moves listed by the call.
MovesSet == {fa.moves[k] : k \in 1..Len(fa.moves)}

\* The single liberties of the opponent blocks next to the block that are
\* themselves in atari.
CounterLibs ==
    {l \in OnBoard :
        \E q \in UNION {Nbrs(s) : s \in FixBlock} :
            /\ pos.color[q] = "x"
            /\ LibsOf(pos.color, BlockOf(pos.color, q)) = {l}}

\* Playing the liberty is legal; the liberties of the block once it is played.
EscLegal == TheLib # pos.ko /\ KeepsLiberty(pos.color, TheLib)
EscLibs ==
    LibsOf(AfterCapture(pos.color, TheLib),
           BlockOf(AfterCapture(pos.color, TheLib), TheLib))

\* read_ladder_attack finds a capturing move against the block once the
\* liberty is played.
EscLaddered ==
    read_ladder_attack(play_move(pos, TheLib, 0).pos, TheLib,
        compute_block(play_move(pos, TheLib, 0).pos, TheLib, 3).libs,
        0).move # 0

\* The test fix_atari makes before it lists the escape.
EscKept ==
    /\ EscLegal
    /\ \/ Cardinality(EscLibs) >= 3
       \/ /\ Cardinality(EscLibs) = 2
          /\ (Cardinality(CounterLibs) > 1 \/ ~EscLaddered)

\* C8: called with singlept_ok false on an opponent's block that has exactly
\* one liberty, fix_atari returns 1 and moves holds exactly that liberty,
\* whatever twolib_test and twolib_edgeonly are.
C8_CaptureMove ==
    (OppAtari /\ fa.singlept_ok = 0)
        => (fa.ret = 1 /\ fa.moves = << TheLib >>)

C8_Witness ==
    /\ OppAtari
    /\ fa.singlept_ok = 0 /\ fa.twolib_test # 0 /\ fa.twolib_edgeonly # 0
    /\ fa.ret = 1
    /\ fa.moves = << TheLib >>

\* C9 as claimed: on a block of the side to move with exactly one liberty L
\* fix_atari returns 1, moves contains the liberty of every adjacent opponent
\* block in atari, and contains L iff playing L is legal, leaves the block at
\* least 2 liberties and, when it leaves exactly 2, read_ladder_attack finds
\* no capture.
C9_AsClaimed ==
    OwnAtari
        => /\ fa.ret = 1
           /\ CounterLibs \subseteq MovesSet
           /\ (TheLib \in MovesSet)
                <=> /\ EscLegal
                    /\ Cardinality(EscLibs) >= 2
                    /\ (Cardinality(EscLibs) = 2 => ~EscLaddered)

\* C9: on a block of the side to move with exactly one liberty L, fix_atari
\* returns 0 with no move when singlept_ok is set and the block is a single
\* stone; otherwise it returns 1 and moves holds, once each, the liberty of
\* every adjacent opponent block in atari and, when playing L is legal, L if
\* it leaves the block 3 liberties or more, or 2 liberties and either more
\* than one counter-capture is listed or read_ladder_attack finds no capture.
C9_OwnAtari ==
    OwnAtari
        => IF fa.singlept_ok # 0 /\ Cardinality(FixBlock) = 1
           THEN fa.ret = 0 /\ fa.moves = << >>
           ELSE /\ fa.ret = 1
                /\ MovesSet = CounterLibs
                                \cup (IF EscKept THEN {TheLib} ELSE {})
                /\ Len(fa.moves) = Cardinality(MovesSet)

C9_Witness ==
    /\ OwnAtari
    /\ fa.ret = 1
    /\ CounterLibs # {}
    /\ TheLib \notin CounterLibs
    /\ CounterLibs \cup {TheLib} = MovesSet

\* C10 as claimed: called with singlept_ok false on a single stone of the side
\* to move that is in atari, fix_atari does not list the stone's liberty.
C10_AsClaimed ==
    (OwnAtari /\ Cardinality(FixBlock) = 1 /\ fa.singlept_ok = 0)
        => TheLib \notin MovesSet

\* C10: called on a single stone of the side to move that is in atari,
\* fix_atari returns 0 and lists no move when singlept_ok is set, and with
\* singlept_ok false it returns 1 and lists the stone's liberty whenever its
\* escape test passes.
C10_SingleStone ==
    (OwnAtari /\ Cardinality(FixBlock) = 1)
        => IF fa.singlept_ok # 0
           THEN fa.ret = 0 /\ MovesSet = {}
           ELSE fa.ret = 1 /\ (EscKept => TheLib \in MovesSet)

C10_Witness ==
    /\ OwnAtari
    /\ Cardinality(FixBlock) = 1
    /\ fa.singlept_ok # 0
    /\ EscKept
    /\ fa.ret = 0
    /\ MovesSet = {}

\* No call of fix_atari wrote beyond the end of an array.
NoOverrun == fa.ub = FALSE

\* fix_atari listed the escape of a block that had two counter-captures.
SeenTwoCounterCaptures ==
    OwnAtari /\ Cardinality(CounterLibs) > 1 /\ Cardinality(EscLibs) = 2
        /\ TheLib \in MovesSet

\* fix_atari met an escape that is suicide.
SeenSuicideEscape == OwnAtari /\ fa.ret = 1 /\ ~EscLegal

\* fix_atari refused an escape that read_ladder_attack captures.
SeenLadderedEscape ==
    OwnAtari /\ fa.ret = 1 /\ EscLegal /\ Cardinality(EscLibs) = 2
        /\ EscLaddered /\ TheLib \notin MovesSet

\* ------------------------------------------------------------ ladders
\* fix_atari was called on a block of at least two stones with exactly two
\* liberties.
TwoLibBlock ==
    FixDone /\ Cardinality(FixBlock) >= 2 /\ Cardinality(FixLibs) = 2

\* The side to move may play on l.
LadderLegal(l) == l # pos.ko /\ KeepsLiberty(pos.color, l)

\* Playing l is a working ladder attack on the block: the move is legal, it
\* leaves the block with one liberty, and fix_atari (with its one-move
\* horizon) then finds no capturing or escaping move for the owner.
LadderWorks(l) ==
    /\ LadderLegal(l)
    /\ Cardinality(LibsOf(AfterCapture(pos.color, l),
                          BlockOf(AfterCapture(pos.color, l), arg))) = 1
    /\ fix_atari(play_move(pos, l, 0).pos, arg, SINGLEPT_NOK,
                 TWOLIBS_TEST_NO, 0, 0, LadderRoom).moves = << >>

Working == {l \in FixLibs : LadderWorks(l)}

\* The points of the first line of the board.
FirstLine ==
    {q \in OnBoard : q \div (N + 1) \in {1, N} \/ q % (N + 1) \in {1, N}}

\* The ladder test is on and not restricted to the edge / restricted to it.
LadderCase == TwoLibBlock /\ fa.twolib_test # 0 /\ fa.twolib_edgeonly = 0
EdgeCase == TwoLibBlock /\ fa.twolib_test # 0 /\ fa.twolib_edgeonly # 0

\* C11 as stated: for a block of at least two stones with exactly two
\* liberties, twolib_test on and twolib_edgeonly off, fix_atari returns 0 and
\* moves holds a liberty iff playing it is a working ladder attack.
C11_AsClaimed == LadderCase => fa.ret = 0 /\ MovesSet = Working

\* C11: in that case fix_atari returns 0; moves is empty when no liberty is a
\* working ladder attack, and otherwise holds exactly one move, a liberty
\* that is a working ladder attack.
C11_OneLadderMove ==
    LadderCase =>
        /\ fa.ret = 0
        /\ IF Working = {} THEN fa.moves = << >>
           ELSE Len(fa.moves) = 1 /\ fa.moves[1] \in Working
                /\ fa.sizes = << Cardinality(FixBlock) >>

\* Both liberties are working ladder attacks and one of them is listed.
C11_Witness ==
    LadderCase /\ Cardinality(Working) = 2 /\ Len(fa.moves) = 1
        /\ fa.moves[1] \in Working

\* C20 as stated: with twolib_test and twolib_edgeonly on, the ladder read
\* is skipped only when both liberties are away from the edge; with a
\* liberty on the first line a working ladder attack is proposed.
C20_AsClaimed ==
    EdgeCase =>
        IF FixLibs \cap FirstLine = {} THEN fa.moves = << >>
        ELSE Working # {} => fa.moves # << >>

\* C20: with twolib_test and twolib_edgeonly on, fix_atari returns 0 with no
\* move as soon as one of the two liberties is away from the edge; when both
\* liberties lie on the first line it proposes a working ladder attack if
\* there is one.
C20_EdgeOnly ==
    EdgeCase =>
        /\ fa.ret = 0
        /\ IF ~(FixLibs \subseteq FirstLine) \/ Working = {}
           THEN fa.moves = << >>
           ELSE Len(fa.moves) = 1 /\ fa.moves[1] \in Working

\* Both liberties on the first line and a ladder attack proposed.
C20_Witness ==
    EdgeCase /\ FixLibs \subseteq FirstLine /\ Working # {}
        /\ Len(fa.moves) = 1 /\ fa.moves[1] \in Working

\* One liberty on the first line, the other away from it, a working ladder
\* attack and no move proposed.
SeenSkippedEdgeLadder ==
    EdgeCase /\ FixLibs \cap FirstLine # {} /\ ~(FixLibs \subseteq FirstLine)
        /\ Working # {} /\ fa.moves = << >>


\* ------------------------------------------------------------ the tree
ExpandDone == op \in {"expand", "tree_search"}
SearchAnswered == op = "tree_search"

\* The most visited child of the root after the latest search.
Best == best_move(tree)

\* C12 as stated: tree_search returns RESIGN whenever the most visited child
\* has w/v < 0.2; otherwise PASS if the child is a pass that follows a pass;
\* otherwise the child's move.
C12_AsClaimed ==
    SearchAnswered =>
        tree.move = IF Best.v > 0 /\ 5 * Best.w < Best.v THEN RESIGN_MOVE
                    ELSE IF Best.last = PASS_MOVE /\ Best.last2 = PASS_MOVE
                    THEN PASS_MOVE
                    ELSE Best.last

\* The search answered on a terminated children array, the most visited
\* child being a second consecutive pass that wins less than once in five.
SeenLosingSecondPass ==
    SearchAnswered /\ Terminated(tree)
        /\ Best.last = PASS_MOVE /\ Best.last2 = PASS_MOVE
        /\ Best.v > 0 /\ 5 * Best.w < Best.v /\ tree.move = PASS_MOVE

\* C13 as stated: after expand the children array holds nchildren >= 1
\* nodes followed by a NULL pointer that lies inside the allocated array.
C13_AsClaimed ==
    ExpandDone =>
        /\ tree.nchildren >= 1
        /\ Len(tree.children) = tree.nchildren
        /\ tree.nchildren < tree.room

\* expand left a PASS child after candidate moves that were all illegal.
SeenPassChildTerminated ==
    op = "expand" /\ tree.nchildren = 1 /\ tree.children[1].last = PASS_MOVE
        /\ tree.room > 1

\* ------------------------------------------------------------ coordinate claims
\* The legal upper-case coordinates: a column letter among the first N of
\* A..T without I, and a row 1..N written without a leading zero.
ColLetters == SelectSeq(Upper, LAMBDA c : c # "I")
LegalCoords ==
    {Text(<< ColLetters[k] >>) \o decimal(y) : k \in 1..N, y \in 1..N}
PassText == Text(<< "p", "a", "s", "s" >>)

RoundTripDone == op = "str_coord"

\* C19: str_coord(parse_coord(s)) is s for every legal upper-case coordinate
\* s and for the string pass; parse_coord maps a legal coordinate to a point
\* of the board, and pass to PASS_MOVE, which is not a point of the board.
C19_RoundTrip ==
    /\ RoundTripDone /\ io.s \in LegalCoords \cup {PassText} => io.str = io.s
    /\ op \in {"parse_coord", "str_coord"} /\ io.s \in LegalCoords
           => io.pt \in OnBoard
    /\ op \in {"parse_coord", "str_coord"} /\ io.s = PassText
           => io.pt = PASS_MOVE /\ PASS_MOVE \notin OnBoard

\* The coordinate J9, whose letter follows the skipped I, has come back.
C19_Witness ==
    /\ RoundTripDone
    /\ io.s = Text(<< "J", "9" >>)
    /\ io.pt = Pt(9, 9)
    /\ io.str = io.s

\* Strings that are not legal upper-case coordinates do not come back: a
\* lower-case letter, the letter I and a leading zero are read but not
\* written.
SeenOneWayCoord ==
    /\ RoundTripDone
    /\ io.s = Text(<< "I", "0", "2" >>)
    /\ io.str = Text(<< "J", "2" >>)

\* ------------------------------------------------------------ GTP claims
GenmoveDone == op = "genmove"

\* The two latest plies of the position genmove was given are passes.
AfterTwoPasses ==
    /\ pre.pos.n >= 2
    /\ pre.pos.last = PASS_MOVE
    /\ pre.pos.last2 = PASS_MOVE

\* C14 as stated: genmove answers pass and places no stone whenever the two
\* latest plies of the position are passes, at any ply count, and so after
\* two passes entered on the empty board.
C14_AsClaimed ==
    GenmoveDone /\ AfterTwoPasses =>
        /\ io.answer = Text(<< "p", "a", "s", "s" >>)
        /\ Stones(pos) = Stones(pre.pos)

\* After two passes on the empty board genmove has searched and put a stone
\* on the board.
SeenStoneAfterTwoPasses ==
    /\ GenmoveDone /\ AfterTwoPasses
    /\ pre.pos.n = 2
    /\ Stones(pre.pos) = {}
    /\ Stones(pos) = {arg}
    /\ io.answer = str_coord(arg)

\* After a pass at a ply count above 2 genmove has passed without a search.
SeenPassAfterPass ==
    /\ GenmoveDone
    /\ pre.pos.n > 2
    /\ pre.pos.last = PASS_MOVE
    /\ io.answer = Text(<< "p", "a", "s", "s" >>)
    /\ pos = pass_move(pre.pos)

\* ------------------------------------------------------------ 3x3 pattern claims
\* The real colour of the point q: X for BLACK, O for WHITE, # off the board
\* (BLACK is to move when n is even).
RealColor(p, q) ==
    CASE p.color[q] = "." -> "."
      [] p.color[q] = " " -> "#"
      [] OTHER -> IF (p.color[q] = "X") = (p.n % 2 = 0) THEN "X" ELSE "O"

\* The neighbour of pt that lies dx columns to the east and dy rows to the
\* north.
Cell(p, pt, dx, dy) == RealColor(p, pt + dx - dy * (N + 1))

Around == {d \in (-1..1) \X (-1..1) : d # << 0, 0 >>}

\* The 8 rotations and reflections of the plane that keep the grid.
D4 ==
    {g \in [1..4 -> -1..1] :
        \/ g[1] # 0 /\ g[4] # 0 /\ g[2] = 0 /\ g[3] = 0
        \/ g[1] = 0 /\ g[4] = 0 /\ g[2] # 0 /\ g[3] # 0}
Turned(g, d) == << g[1] * d[1] + g[2] * d[2], g[3] * d[1] + g[4] * d[2] >>

\* The character of the template t at the offset d.
TemplateAt(t, d) == t[(1 - d[2]) * 3 + d[1] + 2]

\* The template character tc admits the real colour rc, the two colours
\* being exchanged when sw holds.
CharFits(tc, rc, sw) ==
    LET X == IF sw THEN "O" ELSE "X"
        O == IF sw THEN "X" ELSE "O"
    IN  CASE tc = "X" -> rc = X
          [] tc = "O" -> rc = O
          [] tc = "." -> rc = "."
          [] tc = "#" -> rc = "#"
          [] tc = "x" -> rc # X
          [] tc = "o" -> rc # O
          [] tc = "?" -> TRUE

TemplateFits(t, g, sw, p, pt) ==
    \A d \in Around : CharFits(TemplateAt(t, Turned(g, d)),
                               Cell(p, pt, d[1], d[2]), sw)

\* The eight neighbours of pt match one of the templates of pat3src under
\* one of the 8 rotations and reflections, with or without the exchange of
\* the colours.
Pat3Fits(p, pt) ==
    \E k \in 1..Len(pat3src), g \in D4, sw \in BOOLEAN :
        TemplateFits(pat3src[k], g, sw, p, pt)

\* The neighbourhood of pt turned by g, its colours exchanged when sw holds,
\* written as a pattern.
TurnedSrc(p, pt, g, sw) ==
    [i \in 1..9 |->
        LET d == Turned(g, << ((i - 1) % 3) - 1, 1 - ((i - 1) \div 3) >>)
            c == IF d = << 0, 0 >> THEN "." ELSE Cell(p, pt, d[1], d[2])
        IN  IF sw /\ c = "X" THEN "O"
            ELSE IF sw /\ c = "O" THEN "X"
            ELSE c]

Pat3Done == op = "pat3_match"

\* C18: pat3_match(pos, pt) is true iff the eight neighbours of pt, taken
\* with their real colours and OUT off the board, match one of the 13
\* templates of pat3src under one of the 8 rotations and reflections, with or
\* without the exchange of the colours; the answer is the same for the 16
\* transformed neighbourhoods and for the other side to move.
C18_Pat3Match ==
    Pat3Done =>
        /\ pat.match = Pat3Fits(pos, pat.pt)
        /\ \A g \in D4, sw \in BOOLEAN :
              (compute_code(TurnedSrc(pos, pat.pt, g, sw)) \in pat3set)
                  = pat.match
        /\ pat3_match(pass_move(pos), pat.pt) = pat.match

\* A probe has matched with White to move, on a neighbourhood that no
\* template fits as it is written: it fits turned only.
C18_Witness ==
    /\ Pat3Done
    /\ pat.match
    /\ pos.n % 2 = 1
    /\ pos.color[pat.pt] = "."
    /\ \A k \in 1..Len(pat3src), sw \in BOOLEAN :
          ~TemplateFits(pat3src[k], [i \in 1..4 |-> IF i \in {1, 4} THEN 1 ELSE 0],
                        sw, pos, pat.pt)

\* A probe has failed on a point with stones of both colours around it.
SeenPat3Miss ==
    /\ Pat3Done
    /\ ~pat.match
    /\ \E d \in Around : Cell(pos, pat.pt, d[1], d[2]) = "X"
    /\ \E d \in Around : Cell(pos, pat.pt, d[1], d[2]) = "O"


\* ------------------------------------------------------------ large pattern claims
\* The character a pattern file writes for the point that lies d[1] columns
\* to the east and d[2] rows to the north of pt: X for a stone of the player
\* to move, O for a stone of the opponent, # off the board.
Seen(p, pt, d) ==
    LET x == (pt % (N + 1)) + d[1]
        y == N + 1 - (pt \div (N + 1)) + d[2]
    IN  IF x \in 1..N /\ y \in 1..N
        THEN CASE p.color[Pt(x, y)] = "X" -> "X"
               [] p.color[Pt(x, y)] = "x" -> "O"
               [] OTHER -> "."
        ELSE "#"

\* The first s rings around pt, written as a pattern.
RingString(p, pt, s) ==
    [k \in 1..pat_gridcular_size[s + 1] |-> Seen(p, pt, pat_gridcular_seq[k])]

\* The accumulated signature of the first s rings around pt.
Signature(p, pt, s) == zobrist_hash(RingString(p, pt, s))

\* The dictionary holds an entry of the key k; the probability stored for it.
InDictionary(k) ==
    \E h \in DOMAIN pat.dict.patterns : pat.dict.patterns[h].key = k
StoredProb(k) ==
    pat.dict.patterns[CHOOSE h \in DOMAIN pat.dict.patterns :
                         pat.dict.patterns[h].key = k].prob

\* The ring counts whose signature at pt is present in the dictionary.
MatchingRings(p, pt) ==
    {s \in 1..12 : InDictionary(Signature(p, pt, s))}

Largest(S) == CHOOSE m \in S : \A s \in S : s <= m

LargeProbDone == pat.query = "large_pattern_probability"
MatchPatDone == pat.query = "make_list_pat_matching"
FindPatDone == pat.query = "find_pat"

\* C17 as the claim states it: when patterns.prob or patterns.spat cannot be
\* opened the dictionary stays empty, the engine continues, and
\* large_pattern_probability returns -1 at every point.
C17_AsClaimed ==
    (~pat.files.prob_ok \/ ~pat.files.spat_ok) =>
        /\ pat.dict.patterns = NoEntries
        /\ ~pat.crash
        /\ LargeProbDone => pat.prob = -1000

\* C17: when patterns.spat cannot be opened the dictionary stays empty, the
\* engine continues, and large_pattern_probability returns -1 at every point
\* of every position.
C17_SpatMissing ==
    ~pat.files.spat_ok =>
        /\ pat.dict.patterns = NoEntries
        /\ ~pat.crash
        /\ LargeProbDone => pat.prob = -1000

\* patterns.spat could not be opened and large_pattern_probability has
\* returned -1 at a point whose first ring is a pattern of the file.
C17_Witness ==
    /\ ~pat.files.spat_ok
    /\ LargeProbDone
    /\ pat.prob = -1000
    /\ \E n \in 1..Len(pat.files.spat) :
          pat.files.spat[n].strpat = RingString(pos, pat.pt, 1)

\* Only patterns.prob could not be opened and large_pattern_probability has
\* returned the probability 0 of a loaded pattern.
SeenZeroProb ==
    /\ ~pat.files.prob_ok
    /\ pat.files.spat_ok
    /\ LargeProbDone
    /\ pat.prob = 0

\* C16 as the claim states it: large_pattern_probability returns the
\* probability stored for the largest ring count whose signature at the point
\* is present in the dictionary, and -1 only if no ring count matches.
C16_AsClaimed ==
    LargeProbDone =>
        /\ ~pat.crash
        /\ pat.prob = IF MatchingRings(pos, pat.pt) = {} THEN -1000
                      ELSE StoredProb(Signature(pos, pat.pt,
                               Largest(MatchingRings(pos, pat.pt))))

\* large_pattern_probability has returned the probability of the largest of
\* two matching ring counts.
SeenLargestRing ==
    /\ LargeProbDone
    /\ ~pat.oob
    /\ MatchingRings(pos, pat.pt) = {1, 3}
    /\ pat.prob = StoredProb(Signature(pos, pat.pt, 3))
    /\ pat.prob # StoredProb(Signature(pos, pat.pt, 1))

\* large_pattern_probability has returned -1 although the signature of 3
\* rings is present: the loop was left after the misses of 1 and 2 rings.
SeenRingSkipped ==
    /\ LargeProbDone
    /\ ~pat.oob
    /\ MatchingRings(pos, pat.pt) = {3}
    /\ pat.prob = -1000

\* large_pattern_probability has read patterns[LENGTH] and has returned the
\* probability of a smaller ring count than the largest one present.
SeenStrayMiss ==
    /\ LargeProbDone
    /\ pat.oob
    /\ ~pat.crash
    /\ MatchingRings(pos, pat.pt) = {1, 3}
    /\ pat.prob = StoredProb(Signature(pos, pat.pt, 1))

\* The board turned by g about its centre: the point of the column x and
\* the row y goes to Image(g, Pt(x, y)).
Image(g, pt) ==
    LET c == (N + 1) \div 2
        d == Turned(g, << (pt % (N + 1)) - c,
                          N + 1 - (pt \div (N + 1)) - c >>)
    IN  Pt(c + d[1], c + d[2])

\* The colours of the position p turned by g.
ImageColor(g, p) ==
    [i \in Index |->
        IF i \in OnBoard
        THEN p.color[CHOOSE q \in OnBoard : Image(g, q) = i]
        ELSE p.color[i]]

\* C15 as the claim states it: every one of the 8 rotations and reflections
\* of every pattern of patterns.spat is found with the id and the
\* probability of its record, and a position and its turned image list the
\* same ids at corresponding points.
C15_AsClaimed ==
    /\ FindPatDone =>
          /\ ~pat.crash
          /\ pat.found
          /\ pat.ids = << pat.files.spat[pat.rec].id >>
          /\ pat.prob = probs_of(IF pat.files.prob_ok THEN pat.files.prob
                                                      ELSE NoEntries,
                                 pat.files.spat[pat.rec].id)
    /\ MatchPatDone =>
          /\ ~pat.crash
          /\ \A g \in D4 :
                pat.ids = make_list_pat_matching(pat.dict,
                              ImageColor(g, pos), Image(g, pat.pt),
                              "kept").ids

\* A turned pattern has been found with the id and the probability of its
\* record.
SeenFound ==
    /\ FindPatDone
    /\ pat.perm = 5
    /\ pat.found
    /\ pat.ids = << pat.files.spat[pat.rec].id >>
    /\ pat.prob = pat.files.prob[pat.files.spat[pat.rec].id]

\* A pattern of the file has not been found: the lookup has read
\* patterns[LENGTH].
SeenNotFound ==
    /\ FindPatDone
    /\ pat.oob
    /\ ~pat.crash
    /\ ~pat.found

\* The process has ended on the read of patterns[LENGTH].
SeenCrash == pat.crash

\* Ids have been listed at a point of a position with stones.
SeenIdsListed ==
    /\ MatchPatDone
    /\ pos.n > 0
    /\ Len(pat.ids) >= 2


\* C22 as the claim states it: every slot index that find_pat reads or
\* returns lies in 0 .. LENGTH-1, while patterns.spat is loaded and in every
\* query made afterwards.
C22_AsClaimed == ~pat.dict.oob /\ ~pat.oob


\* ------------------------------------------------------------ block claims
BlockDone == op = "compute_block"

\* The points of a list.
Points(l) == {l[k] : k \in 1..Len(l)}

NoDuplicate(l) == Cardinality(Points(l)) = Len(l)

\* The block and the liberties of the stone compute_block was called on.
CalledBlock == BlockOf(pos.color, mc.pt)
CalledLibs == LibsOf(pos.color, CalledBlock)

\* C23 as the claim states it: stones holds every stone of the block of pt,
\* each once, and libs distinct liberties of the block, for every nlibs;
\* with fewer than nlibs liberties libs is the set of the liberties.
C23_AsClaimed ==
    BlockDone =>
        /\ NoDuplicate(mc.stones)
        /\ Points(mc.stones) = CalledBlock
        /\ NoDuplicate(mc.libs)
        /\ Points(mc.libs) \subseteq CalledLibs
        /\ Cardinality(CalledLibs) < mc.nlibs
              => Points(mc.libs) = CalledLibs

\* C23: stones holds stones of the block of pt, each once and pt among them,
\* and libs distinct liberties of the block, for every nlibs; when the block
\* has fewer than nlibs liberties, stones holds every stone of the block and
\* libs is the set of its liberties.
C23_ComputeBlock ==
    BlockDone =>
        /\ NoDuplicate(mc.stones)
        /\ mc.pt \in Points(mc.stones)
        /\ Points(mc.stones) \subseteq CalledBlock
        /\ NoDuplicate(mc.libs)
        /\ Points(mc.libs) \subseteq CalledLibs
        /\ Cardinality(CalledLibs) < mc.nlibs
              => /\ Points(mc.stones) = CalledBlock
                 /\ Points(mc.libs) = CalledLibs

\* compute_block has listed a block of several stones that has liberties,
\* but fewer than nlibs.
C23_Witness ==
    /\ BlockDone
    /\ Cardinality(CalledBlock) >= 2
    /\ Cardinality(CalledLibs) \in 1..(mc.nlibs - 1)
    /\ Points(mc.stones) = CalledBlock
    /\ Points(mc.libs) = CalledLibs

\* compute_block has returned early: the block has nlibs liberties or more
\* and stones does not hold all its stones.
SeenEarlyReturn ==
    /\ BlockDone
    /\ Cardinality(CalledLibs) >= mc.nlibs
    /\ Len(mc.libs) = mc.nlibs
    /\ Points(mc.stones) # CalledBlock


\* ------------------------------------------------------------ expansion claims
\* expand has just been called on the position.
Expanded == op = "expand"

\* The empty points that are no true eye of the side to move and on which
\* play_move succeeds.
ExpandLegal ==
    {pt \in OnBoard :
        /\ pos.color[pt] = "."
        /\ is_eye(pos, pt) # "X"
        /\ play_move(pos, pt, pos_capture).ret = ""}

\* The children are one node per point of pts, with the position play_move
\* leaves from the parent's.
OneNodePerPoint(pts) ==
    /\ tree.nchildren = Cardinality(pts)
    /\ Len(tree.children) = Cardinality(pts)
    /\ \A pt \in pts :
          \E k \in 1..Len(tree.children) :
              tree.children[k].pos = play_move(pos, pt, pos_capture).pos

\* The only child is the parent's position after a pass.
PassChildOnly ==
    /\ tree.nchildren = 1
    /\ Len(tree.children) = 1
    /\ tree.children[1].pos = pass_move(pos)

\* C27 as the claim states it: after expand the children are exactly one
\* node per empty point that is no true eye of the side to move and on which
\* play_move succeeds, with the parent's position after that move, and the
\* parent's position is as before.
C27_AsClaimed ==
    Expanded => tree.pos = pos /\ OneNodePerPoint(ExpandLegal)

\* C27, amended: after expand the children are exactly one node per empty
\* point that is no true eye of the side to move and on which play_move
\* succeeds, with the parent's position after that move, or, when there is
\* no such point, a single node with the parent's position after a pass; the
\* parent's position is as before.
C27_Children ==
    Expanded =>
        /\ tree.pos = pos
        /\ \A legal \in {ExpandLegal} :
              IF legal # {} THEN OneNodePerPoint(legal) ELSE PassChildOnly

\* expand left children on a position with a ko point, a point where the
\* move is suicide and a true eye of the side to move, none of which got a
\* child.
C27_Witness ==
    /\ Expanded
    /\ OneNodePerPoint(ExpandLegal)
    /\ ExpandLegal # {}
    /\ pos.ko # 0 /\ pos.color[pos.ko] = "."
    /\ \E pt \in OnBoard :
          pos.color[pt] = "." /\ is_eye(pos, pt) # "X" /\ pt # pos.ko
              /\ play_move(pos, pt, pos_capture).ret # ""

\* expand left children on a position where the side to move has a true
\* eye, which got no child.
SeenEyeWithoutChild ==
    /\ Expanded
    /\ ExpandLegal # {}
    /\ \E pt \in OnBoard : pos.color[pt] = "." /\ is_eye(pos, pt) = "X"
    /\ OneNodePerPoint(ExpandLegal)

\* expand left the single pass child, no move being legal.
SeenPassChildOnly == Expanded /\ ExpandLegal = {} /\ PassChildOnly

\* The capture suggestions expand gets for the position.
Suggested == gen_playout_moves_capture(pos, allpoints, 1, pos_capture)

\* The points gen_playout_moves_capture and gen_playout_moves_pat3 suggest
\* over all board points, as expand calls them.
SuggestedPoints ==
    UNION {{ms[i] : i \in 1..Len(ms)} :
           ms \in {Suggested.moves,
                   gen_playout_moves_pat3(pos, allpoints, 1000, 0)}}

\* C36: after expand every legal move among the suggestions of
\* gen_playout_moves_capture and gen_playout_moves_pat3 over all board
\* points is no true eye of the side to move and is the move of one of the
\* children made in the first pass, so that childset[pt] is set where it is
\* read.
C36_SuggestionsHaveChildren ==
    Expanded =>
        \A pt \in SuggestedPoints :
            play_move(pos, pt, pos_capture).ret = "" =>
                /\ is_eye(pos, pt) # "X"
                /\ \E k \in 1..Len(tree.children) :
                      tree.children[k].last = pt

\* expand was called where a legal suggestion lies on a point whose
\* neighbours are all stones of the side to move, a false eye, and a child
\* was made for it.
C36_Witness ==
    /\ Expanded
    /\ \E pt \in SuggestedPoints :
          /\ play_move(pos, pt, pos_capture).ret = ""
          /\ is_eyeish(pos, pt) = "X"
          /\ \E k \in 1..Len(tree.children) : tree.children[k].last = pt

\* The children as expand leaves them when the capture suggestions are left
\* out: the priors of the 3x3 patterns and of the second pass.
WithoutCapture ==
    ex_second(pos, pos_capture, NoPat.dict,
              ex_pat3(pos, pos_capture,
                      ex_children(
                        [k \in 1..Len(gen_playout_moves_random(
                                         pos, BOARD_IMIN - 1)) |->
                            play_move(pos,
                                      gen_playout_moves_random(
                                        pos, BOARD_IMIN - 1)[k],
                                      pos_capture)])))

\* The child on pt has, over the priors of base, the capture prior of size.
CapturePrior(base, pt, size) ==
    \E k \in 1..Len(tree.children) :
        /\ tree.children[k].last = pt
        /\ base[k].last = pt
        /\ tree.children[k].pv = base[k].pv + ex_capture_prior(size)
        /\ tree.children[k].pw = base[k].pw + ex_capture_prior(size)

\* The i-th capture suggestion is a legal move.
LegalSuggestion(g, i) == play_move(pos, g.moves[i], pos_capture).ret = ""

\* C26 as the claim states it: after expand every child whose move is a
\* legal capture suggestion over the whole board has received the capture
\* prior once, +15 to pv and pw when the size paired with the move is 1 and
\* +30 when it is larger, also when an earlier suggestion is illegal.
C26_AsClaimed ==
    Expanded =>
        \A g \in {Suggested}, base \in {WithoutCapture} :
            \A i \in 1..Len(g.moves) :
                LegalSuggestion(g, i) =>
                    CapturePrior(base, g.moves[i], g.sizes[i])

\* Capture suggestions of size 1 and of a larger size, all legal, have got
\* +15 and +30.
SeenCapturePriors ==
    /\ Expanded
    /\ \E g \in {Suggested}, base \in {WithoutCapture} :
          /\ \A i \in 1..Len(g.moves) :
                LegalSuggestion(g, i)
                    /\ CapturePrior(base, g.moves[i], g.sizes[i])
          /\ \E i \in 1..Len(g.moves) : g.sizes[i] = 1
          /\ \E i \in 1..Len(g.moves) : g.sizes[i] > 1

\* A legal suggestion that follows an illegal one has got the prior of the
\* size paired with the suggestion before it.
SeenLaggingSize ==
    /\ Expanded
    /\ \E g \in {Suggested}, base \in {WithoutCapture} :
          \E i \in 2..Len(g.moves) :
              /\ ~LegalSuggestion(g, i - 1)
              /\ LegalSuggestion(g, i)
              /\ g.sizes[i] > 1 /\ g.sizes[i - 1] = 1
              /\ CapturePrior(base, g.moves[i], g.sizes[i - 1])

\* ------------------------------------------------------------ frame claims
\* C38 as the claim states it: a call of fix_atari (with the calls of
\* read_ladder_attack it makes) leaves the position it was passed as it was
\* and returns with the global pos_capture as it was at entry, on every
\* return path.
C38_AsClaimed ==
    [][op' = "fix_atari" => pos' = pos /\ pos_capture' = pos_capture]_vars

\* fix_atari has returned 1 for a stone of the side to move with no move
\* suggested, its single liberty being a point where the move is suicide,
\* and the global pos_capture is 0.
SeenSuicidalEscape ==
    /\ FixDone
    /\ pos.color[arg] = "X"
    /\ fa.ret = 1
    /\ fa.moves = << >>
    /\ pos_capture = 0
    /\ pos.cap > 0
    /\ \E b \in {compute_block(pos, arg, 3)} :
          /\ Len(b.libs) = 1
          /\ play_move(pos, b.libs[1], pos_capture).ret = RetSuicide

\* ------------------------------------------------------------ mark claims
\* The functions that are running, outermost first.
MkCalls == [k \in 1..Len(mc.stack) |-> mc.stack[k].fn]

\* C34: mark_init is never called on a Mark whose in_use flag is set: a Mark
\* is in use only while the function that initialised it runs, and no
\* traversal has its marks wiped by a nested one.
C34_MarksNotShared ==
    /\ ~mc.wiped
    /\ \A m \in MarkNames :
          mc.marks[m].in_use = 1 =>
              \E k \in 1..Len(mc.stack) :
                  /\ \E j \in 1..Len(MarkBody[mc.stack[k].fn]) :
                        MarkBody[mc.stack[k].fn][j] = MkInit(m)
                  /\ \A j \in 1..Len(mc.stack) :
                        mc.stack[j].fn = mc.stack[k].fn => j = k

\* compute_block runs with mark1 inside make_list_neighbor_blocks_in_atari,
\* whose mark2 is in use, in a fix_atari that read_ladder_attack called from
\* another fix_atari.
C34_Witness ==
    /\ MkRunning
    /\ mc.marks["mark1"].in_use = 1
    /\ mc.marks["mark2"].in_use = 1
    /\ MkTop.fn = "compute_block"
    /\ \E i, j, k \in 1..Len(mc.stack) :
          /\ i < j /\ j < k
          /\ MkCalls[i] = "fix_atari"
          /\ MkCalls[j] = "read_ladder_attack"
          /\ MkCalls[k] = "fix_atari"

\* ------------------------------------------------------------ shuffle claims
\* The loop of SHUFFLE is left.
ShuffleDone == mc.k <= 0

\* The lists SHUFFLE can leave from l when its loop starts at _k = k.
RECURSIVE ShuffleOutcomes(_, _)
ShuffleOutcomes(l, k) ==
    IF k <= 0 THEN {l}
    ELSE UNION {ShuffleOutcomes(shuffle_swap(l, k, r), k - 1) :
                   r \in 0..(k - 1)}

\* The orderings of the items of l.
Orderings(l) ==
    {[i \in 1..Len(l) |-> l[p[i]]] : p \in Permutations(1..Len(l))}

\* C33 as the claim states it: SHUFFLE leaves the items of the list, none
\* lost and none twice, and every ordering of them, the original order
\* included, is what it leaves for some results of random_int.
C33_AsClaimed ==
    ShuffleDone =>
        /\ mc.l \in Orderings(mc.orig)
        /\ Orderings(mc.orig) \subseteq
              ShuffleOutcomes(mc.orig, Len(mc.orig) - 1)

\* SHUFFLE has run on a list of two items, which it has exchanged.
SeenExchanged ==
    /\ ShuffleDone
    /\ Len(mc.orig) = 2
    /\ mc.l = << mc.orig[2], mc.orig[1] >>

\* SHUFFLE has run on a list of three items or more: the list is an
\* ordering of the items in which no item is where it was.
SeenNoItemInPlace ==
    /\ ShuffleDone
    /\ Len(mc.orig) >= 3
    /\ mc.l \in Orderings(mc.orig)
    /\ \A i \in 1..Len(mc.l) : mc.l[i] # mc.orig[i]

\* ------------------------------------------------------------ distance claims
\* The cost of the step between the neighbours a and b in position p: 0
\* between two stones of one colour, 1 otherwise.
StepCost(p, a, b) ==
    IF p.color[a] \in {"X", "x"} /\ p.color[a] = p.color[b] THEN 0 ELSE 1

Least(s) == CHOOSE m \in s : \A o \in s : m <= o

\* One round of relaxation of the distances d along all the steps.
Relaxed(p, d) ==
    [n \in OnBoard |->
        Least({d[n]} \cup {d[n + delta[k]] + StepCost(p, n + delta[k], n) :
                            k \in {j \in 1..4 : n + delta[j] \in OnBoard}})]

\* The distances after at most k rounds, or when a round changes nothing.
RECURSIVE RelaxedTo(_, _, _)
RelaxedTo(p, d, k) ==
    IF k = 0 THEN d
    ELSE The({IF d2 = d THEN d ELSE RelaxedTo(p, d2, k - 1) :
                 d2 \in {Relaxed(p, d)}})

\* The length of the shortest path from src to every point of the board (a
\* path has fewer than N*N steps, and costs less than N*N).
ShortestPaths(p, src) ==
    RelaxedTo(p, [n \in OnBoard |-> IF n = src THEN 0 ELSE N * N], N * N)

CfgDone == op = "compute_cfg_distances"

\* C31: compute_cfg_distances leaves its loop with the fringe empty and
\* within its room, cfg_map[src] being 0 and cfg_map[n] for every point n
\* of the board the length of the shortest orthogonal path from src in
\* which a step between two adjacent stones of one colour costs 0 and every
\* other step costs 1.
C31_ShortestPaths ==
    CfgDone =>
        /\ mc.tail = mc.head
        /\ mc.head < 30 * BOARDSIZE
        /\ mc.cfg_map[mc.pt] = 0
        /\ \A d \in {ShortestPaths(pos, mc.pt)} :
              \A n \in OnBoard : mc.cfg_map[n] = d[n]

\* The distances were taken from a stone whose block reaches points that
\* the loop first gave a longer distance (more points were put on the
\* fringe than the board has), with stones of the other colour at distance
\* 1 and points at distance 3 or more.
C31_Witness ==
    /\ CfgDone
    /\ pos.color[mc.pt] \in {"X", "x"}
    /\ mc.head > N * N
    /\ \E n \in OnBoard \ {mc.pt} : mc.cfg_map[n] = 0
    /\ \E n \in OnBoard :
          /\ mc.cfg_map[n] = 1
          /\ pos.color[n] \in {"X", "x"} \ {pos.color[mc.pt]}
    /\ \E n \in OnBoard : mc.cfg_map[n] >= 3

\* ------------------------------------------------------------ capture move claims
GenDone == op = "gen_playout_moves_capture"

\* What fix_atari returns for the k-th point of the heuristic set, as
\* gen_playout_moves_capture calls it.
GenFix(k) ==
    fix_atari(pos, mc.heuristic_set[k], SINGLEPT_NOK, TWOLIBS_TEST,
              IF mc.expensive_ok # 0 THEN 0 ELSE 1, 0, FixRoom)

\* The stones of the heuristic set whose fix_atari returns the move m.
GenCalls(m) ==
    {k \in 1..Len(mc.heuristic_set) :
        /\ pos.color[mc.heuristic_set[k]] \in {"x", "X"}
        /\ SeqHas(GenFix(k).moves, m)}

\* The size fix_atari returned with the move m the first time it returned m.
FirstSize(m) ==
    LET k == CHOOSE j \in GenCalls(m) : \A i \in GenCalls(m) : j <= i
        f == GenFix(k)
    IN  f.sizes[CHOOSE i \in 1..Len(f.moves) : f.moves[i] = m]

\* C25 as the claim states it: moves holds no duplicate, sizes has the
\* length of moves, and sizes[i] is the size fix_atari returned with moves[i]
\* at the first occurrence of that move.
C25_AsClaimed ==
    GenDone =>
        /\ NoDuplicate(mc.moves)
        /\ Len(mc.sizes) = Len(mc.moves)
        /\ \A i \in 1..Len(mc.moves) :
              /\ GenCalls(mc.moves[i]) # {}
              /\ mc.sizes[i] = FirstSize(mc.moves[i])

\* Two moves have been listed with the sizes fix_atari returned with them.
SeenPairedSizes ==
    /\ GenDone
    /\ Len(mc.moves) >= 2
    /\ \A i \in 1..Len(mc.moves) : mc.sizes[i] = FirstSize(mc.moves[i])

\* A move has been listed with the size fix_atari returned with another
\* move, one that was already in the list.
SeenShiftedSize ==
    /\ GenDone
    /\ NoDuplicate(mc.moves)
    /\ Len(mc.sizes) = Len(mc.moves)
    /\ \E i \in 1..Len(mc.moves) : mc.sizes[i] # FirstSize(mc.moves[i])


\* ------------------------------------------------------------ playout claims
\* The position a is the position b in what the game shows of it: the
\* stones, the ko, n, the two latest moves and the capture counts.
SamePosition(a, b) ==
    /\ a.color = b.color
    /\ a.ko = b.ko
    /\ a.n = b.n
    /\ a.last = b.last
    /\ a.last2 = b.last2
    /\ a.cap = b.cap
    /\ a.capX = b.capX

PlayoutDone == mc.call = "mcplayout" /\ mc.iter > 0

\* The stones the trial move t took off the board.
TakenBy(t) ==
    Cardinality(Stones(t.before)) + 1 - Cardinality(Stones(t.played))

\* C21 as the claim states it: after choose_from has rejected a trial move
\* as a self-atari, the position is the one before the trial move, whatever
\* the move captured.
C21_AsClaimed ==
    PlayoutDone =>
        \A k \in 1..Len(mc.rejected) :
            SamePosition(mc.rejected[k].after, mc.rejected[k].before)

\* A rejected trial move that captured one stone has been taken back and the
\* position is the one before it.
SeenRejectedRestored ==
    /\ PlayoutDone
    /\ \E k \in 1..Len(mc.rejected) :
          /\ TakenBy(mc.rejected[k]) = 1
          /\ SamePosition(mc.rejected[k].after, mc.rejected[k].before)

\* A rejected trial move that captured two stones has been taken back and
\* one of the two stones is missing.
SeenRejectedNotRestored ==
    /\ PlayoutDone
    /\ \E k \in 1..Len(mc.rejected) :
          /\ TakenBy(mc.rejected[k]) = 2
          /\ Cardinality(Stones(mc.rejected[k].after))
                = Cardinality(Stones(mc.rejected[k].before)) - 1

\* C24: every iteration of the loop of mcplayout runs while passes < 2 and
\* n < MAX_GAME_LEN and increases n by exactly one, whatever trial moves
\* choose_from played and took back in it; passes counts the passes that end
\* the playout so far.
C24_OnePlyPerIteration ==
    [][(mc.call = "mcplayout" /\ mc'.call = "mcplayout"
            /\ mc'.iter = mc.iter + 1)
        => /\ mc.passes < 2
           /\ mc.pos.n < MAX_GAME_LEN
           /\ mc'.pos.n = mc.pos.n + 1
           /\ mc'.pos.n = mc'.start_n + mc'.iter
           /\ mc'.passes = IF mc'.move = PASS_MOVE THEN mc.passes + 1 ELSE 0
           /\ (mc'.move = PASS_MOVE) = (mc'.pos.last = PASS_MOVE)]_vars

\* An iteration of mcplayout in which a trial move was rejected has played
\* one ply.
C24_Witness ==
    /\ PlayoutDone
    /\ Len(mc.rejected) > 0
    /\ mc.pos.n = mc.before.n + 1

\* A playout has ended on two passes; a playout has ended on n =
\* MAX_GAME_LEN after a move.
SeenTwoPassesEnd == PlayoutDone /\ mc.passes = 2 /\ mc.pos.n < MAX_GAME_LEN
SeenGameLenEnd == PlayoutDone /\ mc.passes < 2 /\ mc.pos.n = MAX_GAME_LEN

\* ------------------------------------------------------------ search claims
\* An iteration of tree_search has just been completed.
IterationDone == op = "tree_search" /\ mc.call = "tree_search" /\ mc.i > 0

\* The paths to the nodes of the tree t.
RECURSIVE Paths(_)
Paths(t) ==
    {<< >>} \cup UNION {{<< k >> \o q : q \in Paths(t.children[k])} :
                        k \in 1..Len(t.children)}

\* The path q leads to a node of the path r.
OnPath(q, r) == Len(q) <= Len(r) /\ SubSeq(r, 1, Len(q)) = q

RECURSIVE SumV(_)
SumV(children) ==
    IF children = << >> THEN 0 ELSE Head(children).v + SumV(Tail(children))

\* The nodes of the path of the latest descent, the root first, as
\* tree_descend left them.
PathNodes == [k \in 0..Len(mc.path) |-> node_at(mc.descended, SubSeq(mc.path, 1, k))]

\* The node at the end of q was reached by two consecutive passes of the
\* descent.
TwoPasses(q) ==
    /\ Len(q) >= 2
    /\ node_at(mc.descended, q).last = PASS_MOVE
    /\ node_at(mc.descended, SubSeq(q, 1, Len(q) - 1)).last = PASS_MOVE

DescentMoves ==
    SelectSeq([k \in 1..Len(mc.path) |->
                  << PathNodes[k].last,
                     IF PathNodes[k - 1].pos.n % 2 = 0 THEN 1 ELSE -1 >>],
              LAMBDA m : m[1] # PASS_MOVE)

IterationMoves == DescentMoves \o mc.played

\* The colour that played pt first in the sequence moves, 0 if none did.
FirstPlayed(moves, pt) ==
    IF \E k \in 1..Len(moves) : moves[k][1] = pt
    THEN moves[CHOOSE k \in 1..Len(moves) :
                   /\ moves[k][1] = pt
                   /\ \A j \in 1..(k - 1) : moves[j][1] # pt][2]
    ELSE 0

ExpandedWhenVisited ==
    /\ \A k \in 1..Len(mc.expanded) :
          \E q \in {mc.expanded[k]} :
              /\ q # << >>
              /\ OnPath(q, mc.path)
              /\ node_at(mc.descended, q).v >= EXPAND_VISITS
    /\ Cardinality({q \in Paths(tree) : node_at(tree, q).room # 0}) =
       Cardinality({q \in Paths(mc.before) :
                       node_at(mc.before, q).room # 0}) + Len(mc.expanded)

\* The path ends at a node without children or at one reached by two
\* passes.
EndsAtLeaf ==
    node_at(mc.descended, mc.path).room = 0 \/ TwoPasses(mc.path)

SeenExpandedAfterTwoPasses ==
    /\ IterationDone
    /\ \E k \in 1..Len(mc.expanded) :
          TwoPasses(mc.expanded[k]) /\ mc.path = mc.expanded[k]

=============================================================================
